---- MODULE Spec2Model ----
(***************************************************************************)
(* The two pricing engines of the jewelry quote builder and the callers    *)
(* that feed them.                                                         *)
(*                                                                         *)
(*   multi-metal engine : src/jewelry_quote_app_v2/pricing.py              *)
(*                        (compute_quote_for_metal, compute_quote_multi),  *)
(*                        called by src/app.py                             *)
(*   table-based engine : src/pricing.py (compute_quote),                  *)
(*                        called by src/app_quote.py                       *)
(*                                                                         *)
(* Numbers.  The Python code computes in binary floating point.  The model *)
(* computes the same expressions in exact decimal arithmetic:              *)
(*   - a money amount is a record [d, f] = d + f / 10^8 dollars, with      *)
(*     0 <= f < 10^8 (d is the floor, so negative amounts are covered);    *)
(*   - weights are given in tenths of a unit, rates and prices in whole    *)
(*     dollars, the platinum density ratio in hundredths, tax and deposit  *)
(*     rates in whole percent, carats in thousandths, markups in tenths.   *)
(* With these input grids every product the engines form is a whole number *)
(* of 10^-8 dollars, so no model operation rounds unless the code rounds.  *)
(*                                                                         *)
(* Strings that the code inspects (strip, lower, upper, startswith) are    *)
(* sequences of one-character strings; strings that are only copied or     *)
(* compared are TLA+ strings.  A Python dict is a function whose domain is *)
(* the set of keys present, so dict.get(k, default) is Get(d, k, default). *)
(***************************************************************************)
EXTENDS Integers, Sequences, FiniteSets, TLC

VARIABLES
    app,              \* which app runs: "multi" (src/app.py) or "table" (src/app_quote.py)
    settings,         \* the configuration dict of the session
    quote_core,       \* multi: the job description dict handed to the engine
    metals_selected,  \* multi: the metal keys selected, in selection order
    options,          \* multi: the quotes of the last run, one per selected metal
    session_state,    \* table: st.session_state (holds trim_rows once created)
    inputs,           \* table: the widget values of the form
    selected_metals,  \* table: the metal types selected, in selection order
    quotes,           \* table: the quotes of the last run, by metal type
    run               \* what the last run of the script did: the engine calls it made,
                      \* the messages it showed, the quote document it built and the
                      \* files it rendered

vars == <<app, settings, quote_core, metals_selected, options,
          session_state, inputs, selected_metals, quotes, run>>

multi_vars == <<quote_core, metals_selected, options>>

table_vars == <<session_state, inputs, selected_metals, quotes>>

----------------------------------------------------------------------------
(* Bounds of the exploration *)

MaxEdits == 3

----------------------------------------------------------------------------
(* Python primitives *)

Get(d, k, default) == IF k \in DOMAIN d THEN d[k] ELSE default

Lowercase == <<"a", "b", "c", "d", "e", "f", "g", "h", "i", "j", "k", "l", "m", "n", "o", "p", "q", "r", "s", "t", "u", "v", "w", "x", "y", "z">>

Uppercase == <<"A", "B", "C", "D", "E", "F", "G", "H", "I", "J", "K", "L", "M", "N", "O", "P", "Q", "R", "S", "T", "U", "V", "W", "X", "Y", "Z">>

ToUpper == [c \in {Lowercase[j] : j \in 1..26} |->
                Uppercase[CHOOSE j \in 1..26 : Lowercase[j] = c]]

ToLower == [c \in {Uppercase[j] : j \in 1..26} |->
                Lowercase[CHOOSE j \in 1..26 : Uppercase[j] = c]]

upper(s) == [i \in 1..Len(s) |-> IF s[i] \in DOMAIN ToUpper THEN ToUpper[s[i]] ELSE s[i]]

lower(s) == [i \in 1..Len(s) |-> IF s[i] \in DOMAIN ToLower THEN ToLower[s[i]] ELSE s[i]]

RECURSIVE lstrip(_)
lstrip(s) == IF s # <<>> /\ Head(s) = " " THEN lstrip(Tail(s)) ELSE s

RECURSIVE rstrip(_)
rstrip(s) == IF s # <<>> /\ s[Len(s)] = " " THEN rstrip(SubSeq(s, 1, Len(s) - 1)) ELSE s

strip(s) == rstrip(lstrip(s))

startswith(s, prefix) == Len(s) >= Len(prefix) /\ SubSeq(s, 1, Len(prefix)) = prefix

----------------------------------------------------------------------------
(* Exact decimal money: [d, f] stands for d + f / Unit dollars *)

Unit == 10 ^ 8

Half == Unit \div 2

Million == 10 ^ 6

Norm(d, f) == [d |-> d + (f \div Unit), f |-> f % Unit]

Dollars(n) == [d |-> n, f |-> 0]

Zero == Dollars(0)

MAdd(a, b) == Norm(a.d + b.d, a.f + b.f)

MPos(a) == a.d > 0 \/ (a.d = 0 /\ a.f > 0)

MLeq(a, b) == a.d < b.d \/ (a.d = b.d /\ a.f <= b.f)

(* n millionths of a unit at `rate` whole dollars per unit *)
MulMicro(n, rate) ==
    LET q == n \div Million
        r == n % Million
    IN  [d |-> q * rate + ((r * rate) \div Million),
         f |-> ((r * rate) % Million) * 100]

(* amount * pct / 100, for an amount that is a whole number of 10^-6 dollars *)
Pct(a, pct) ==
    LET dp == a.d * pct
        fh == a.f \div 10000
        fl == a.f % 10000
    IN  Norm(dp \div 100, (dp % 100) * Million + fh * pct * 100 + (fl \div 100) * pct)

(* Python round(): to the nearest integer, ties to the even one *)
PyRound(a) ==
    IF a.f < Half THEN a.d
    ELSE IF a.f > Half THEN a.d + 1
    ELSE IF a.d % 2 = 0 THEN a.d ELSE a.d + 1

(* Python round(x / 5.0): x = 5q + r + f / Unit with 0 <= r < 5 *)
PyRoundFifth(a) ==
    LET q == a.d \div 5
        t == (a.d % 5) * Unit + a.f
    IN  IF 2 * t < 5 * Unit THEN q
        ELSE IF 2 * t > 5 * Unit THEN q + 1
        ELSE IF q % 2 = 0 THEN q ELSE q + 1

RECURSIVE SumAmounts(_)
SumAmounts(items) ==
    IF items = <<>> THEN Zero
    ELSE MAdd(Head(items).amount, SumAmounts(Tail(items)))

SelectTaxable(items) == SelectSeq(items, LAMBDA li : Get(li, "taxable", FALSE))

Label(fmt, args) == [fmt |-> fmt, args |-> args]

----------------------------------------------------------------------------
(* String constants *)

K14Yellow == <<"1", "4", "K", " ", "Y", "e", "l", "l", "o", "w">>

Platinum == <<"P", "l", "a", "t", "i", "n", "u", "m">>

Silver == <<"S", "i", "l", "v", "e", "r">>

DWT == <<"D", "W", "T">>

Grams == <<"G", "r", "a", "m", "s">>

none == <<"n", "o", "n", "e">>

nearest_dollar == <<"n", "e", "a", "r", "e", "s", "t", "_", "d", "o", "l", "l", "a", "r">>

nearest_5 == <<"n", "e", "a", "r", "e", "s", "t", "_", "5">>

Ruby == <<"R", "u", "b", "y">>

Blank == <<" ">>

----------------------------------------------------------------------------
(* Multi-metal engine: src/jewelry_quote_app_v2/pricing.py *)

(* grams -> pennyweight factor, in thousandths *)
GRAMS_TO_DWT == 643

(* variant: rounds up to the next multiple of 5 above the whole dollars *)
_round_up_to_next_5(x) == Dollars(((x.d \div 5) + 1) * 5)

_round_nearest_5(x) == Dollars(PyRoundFifth(x) * 5)

round_money(x, rule) ==
    LET r == lower(strip(IF rule = <<>> THEN none ELSE rule))
    IN  IF r = nearest_dollar THEN Dollars(PyRound(x))
        ELSE IF r = nearest_5 THEN _round_nearest_5(x)
        ELSE x

(* weight_value in tenths of the unit; result in 10^-4 DWT *)
weight_to_dwt(weight_value, unit) ==
    LET u == strip(IF unit = <<>> THEN DWT ELSE unit)
    IN  IF startswith(lower(u), <<"g", "r", "a", "m">>)
        THEN weight_value * GRAMS_TO_DWT
        ELSE weight_value * 1000

is_platinum(metal_key) == startswith(upper(metal_key), <<"P", "L", "A", "T">>)

cad_lines(qc) ==
    LET cad_fee == Get(qc, "cad_fee", 0)
    IN  IF cad_fee > 0
        THEN << [label |-> Label("CAD / design fee", <<>>),
                 amount |-> Dollars(cad_fee),
                 taxable |-> Get(qc, "tax_cad", TRUE),
                 kind |-> "cad"] >>
        ELSE <<>>

(* variant: the platinum extra fee is added whatever the toggle says *)
metal_lines_fee_always(st, qc, metal_key) ==
    LET metal_weight_value == Get(qc, "metal_weight_value", 0)
        metal_weight_unit == Get(qc, "metal_weight_unit", DWT)
        base_dwt == weight_to_dwt(metal_weight_value, metal_weight_unit)
        rate_table == Get(st, "metals_retail_per_dwt", <<>>)
        rate == Get(rate_table, metal_key, 0)
        ratio0 == Get(st, "platinum_density_ratio", 100)
        ratio == IF ratio0 = 0 THEN 100 ELSE ratio0
        dwt == IF is_platinum(metal_key) THEN base_dwt * ratio ELSE base_dwt * 100
        fee == IF is_platinum(metal_key)
               THEN Dollars(Get(st, "platinum_extra_fee", 0))
               ELSE Zero
        metal_amt == MAdd(MulMicro(dwt, rate), fee)
    IN  IF base_dwt > 0
        THEN << [label |-> Label("Metal ({})", <<metal_key>>),
                 amount |-> metal_amt,
                 taxable |-> Get(qc, "tax_metal", TRUE),
                 kind |-> "metal",
                 meta |-> [input_weight_value |-> metal_weight_value,
                           input_weight_unit |-> metal_weight_unit,
                           computed_dwt |-> dwt,
                           rate_per_dwt |-> rate]] >>
        ELSE <<>>

metal_lines(st, qc, metal_key) ==
    LET metal_weight_value == Get(qc, "metal_weight_value", 0)
        metal_weight_unit == Get(qc, "metal_weight_unit", DWT)
        base_dwt == weight_to_dwt(metal_weight_value, metal_weight_unit)
        rate_table == Get(st, "metals_retail_per_dwt", <<>>)
        rate == Get(rate_table, metal_key, 0)
        ratio0 == Get(st, "platinum_density_ratio", 100)
        ratio == IF ratio0 = 0 THEN 100 ELSE ratio0
        (* effective weight in 10^-6 DWT *)
        dwt == IF is_platinum(metal_key) THEN base_dwt * ratio ELSE base_dwt * 100
        fee == IF is_platinum(metal_key) /\ Get(qc, "add_platinum_extra_fee", TRUE)
               THEN Dollars(Get(st, "platinum_extra_fee", 0))
               ELSE Zero
        metal_amt == MAdd(MulMicro(dwt, rate), fee)
    IN  IF base_dwt > 0
        THEN << [label |-> Label("Metal ({})", <<metal_key>>),
                 amount |-> metal_amt,
                 taxable |-> Get(qc, "tax_metal", TRUE),
                 kind |-> "metal",
                 meta |-> [input_weight_value |-> metal_weight_value,
                           input_weight_unit |-> metal_weight_unit,
                           computed_dwt |-> dwt,
                           rate_per_dwt |-> rate]] >>
        ELSE <<>>

(* variant: the center stone is listed only when it has a price *)
center_stone_lines_priced_only(qc) ==
    LET center_desc == strip(Get(qc, "center_stone_desc", <<>>))
        center_price == Get(qc, "center_stone_price", 0)
    IN  IF center_price > 0
        THEN << [label |-> IF center_desc # <<>>
                           THEN Label("Center stone: {}", <<center_desc>>)
                           ELSE Label("Center stone", <<>>),
                 amount |-> Dollars(center_price),
                 taxable |-> Get(qc, "tax_center_stone", TRUE),
                 kind |-> "center_stone",
                 meta |-> [customer_supplied |->
                              Get(qc, "center_stone_customer_supplied", FALSE)]] >>
        ELSE <<>>

center_stone_lines(qc) ==
    LET center_desc == strip(Get(qc, "center_stone_desc", <<>>))
        center_price == Get(qc, "center_stone_price", 0)
    IN  IF center_desc # <<>> \/ center_price > 0
        THEN << [label |-> IF center_desc # <<>>
                           THEN Label("Center stone: {}", <<center_desc>>)
                           ELSE Label("Center stone", <<>>),
                 amount |-> Dollars(center_price),
                 taxable |-> Get(qc, "tax_center_stone", TRUE),
                 kind |-> "center_stone",
                 meta |-> [customer_supplied |->
                              Get(qc, "center_stone_customer_supplied", FALSE)]] >>
        ELSE <<>>

(* variant: only the quantity decides whether a row is skipped *)
RECURSIVE line_details_qty_only(_, _)
line_details_qty_only(rows, price_key) ==
    IF rows = <<>> THEN <<>>
    ELSE LET row == Head(rows)
             desc == strip(Get(row, "desc", <<>>))
             qty == Get(row, "qty", 0)
             each == Get(row, price_key, 0)
             rest == line_details_qty_only(Tail(rows), price_key)
         IN  IF qty <= 0 THEN rest
             ELSE << (price_key :> each) @@
                     [desc |-> desc, qty |-> qty, amount |-> Dollars(qty * each)] >>
                  \o rest

(* the rows of a multi-line list that are priced: qty > 0 and price > 0 *)
RECURSIVE line_details(_, _)
line_details(rows, price_key) ==
    IF rows = <<>> THEN <<>>
    ELSE LET row == Head(rows)
             desc == strip(Get(row, "desc", <<>>))
             qty == Get(row, "qty", 0)
             each == Get(row, price_key, 0)
             rest == line_details(Tail(rows), price_key)
         IN  IF qty <= 0 \/ each <= 0 THEN rest
             ELSE << (price_key :> each) @@
                     [desc |-> desc, qty |-> qty, amount |-> Dollars(qty * each)] >>
                  \o rest

trim_stone_lines(qc) ==
    LET trim_lines == Get(qc, "trim_stones", <<>>)
        trim_details == line_details(trim_lines, "price_each")
        trim_total == SumAmounts(trim_details)
    IN  IF MPos(trim_total)
        THEN << [label |-> Label("Trim stones", <<>>),
                 amount |-> trim_total,
                 taxable |-> Get(qc, "tax_trim_stones", TRUE),
                 kind |-> "trim_stones",
                 details |-> trim_details] >>
        ELSE <<>>

center_setting_lines(qc) ==
    LET center_setting_labor == Get(qc, "center_setting_labor", 0)
    IN  IF center_setting_labor > 0
        THEN << [label |-> Label("Setting labor (center)", <<>>),
                 amount |-> Dollars(center_setting_labor),
                 taxable |-> Get(qc, "tax_labor", TRUE),
                 kind |-> "labor_center_setting"] >>
        ELSE <<>>

(* variant: the legacy pair is used whenever no multi-line row is priced *)
trim_setting_labor_lines_legacy_when_unpriced(qc) ==
    LET given == Get(qc, "trim_setting_lines", <<>>)
        legacy_qty == Get(qc, "trim_setting_qty", 0)
        legacy_rate == Get(qc, "trim_setting_rate", 0)
        trim_setting_lines ==
            IF line_details(given, "rate") = <<>> /\ legacy_qty > 0 /\ legacy_rate > 0
            THEN << [desc |-> <<>>, qty |-> legacy_qty, rate |-> legacy_rate] >>
            ELSE given
        details == line_details(trim_setting_lines, "rate")
        trim_setting_total == SumAmounts(details)
    IN  IF MPos(trim_setting_total)
        THEN << [label |-> Label("Setting labor (trim)", <<>>),
                 amount |-> trim_setting_total,
                 taxable |-> Get(qc, "tax_labor", TRUE),
                 kind |-> "labor_trim_setting",
                 details |-> details] >>
        ELSE <<>>

trim_setting_labor_lines(qc) ==
    LET given == Get(qc, "trim_setting_lines", <<>>)
        legacy_qty == Get(qc, "trim_setting_qty", 0)
        legacy_rate == Get(qc, "trim_setting_rate", 0)
        trim_setting_lines ==
            IF given = <<>> /\ legacy_qty > 0 /\ legacy_rate > 0
            THEN << [desc |-> <<>>, qty |-> legacy_qty, rate |-> legacy_rate] >>
            ELSE given
        details == line_details(trim_setting_lines, "rate")
        trim_setting_total == SumAmounts(details)
    IN  IF MPos(trim_setting_total)
        THEN << [label |-> Label("Setting labor (trim)", <<>>),
                 amount |-> trim_setting_total,
                 taxable |-> Get(qc, "tax_labor", TRUE),
                 kind |-> "labor_trim_setting",
                 details |-> details] >>
        ELSE <<>>

(* variant: every charge is taxable unless its toggle says otherwise *)
_add_charge_taxable_by_default(qc, key, label, default_taxable) ==
    LET val == Get(qc, key, 0)
    IN  IF val > 0
        THEN << [label |-> Label(label, <<>>),
                 amount |-> Dollars(val),
                 taxable |-> Get(qc, "tax_" \o key, TRUE),
                 kind |-> key] >>
        ELSE <<>>

_add_charge(qc, key, label, default_taxable) ==
    LET val == Get(qc, key, 0)
    IN  IF val > 0
        THEN << [label |-> Label(label, <<>>),
                 amount |-> Dollars(val),
                 taxable |-> Get(qc, "tax_" \o key, default_taxable),
                 kind |-> key] >>
        ELSE <<>>

additional_charge_lines(qc) ==
       _add_charge(qc, "appraisal", "Appraisal (outside components)", TRUE)
    \o _add_charge(qc, "engraving", "Engraving", TRUE)
    \o _add_charge(qc, "shipping", "Shipping", FALSE)
    \o _add_charge(qc, "rhodium", "Rhodium plating", TRUE)

(* variant: the platinum extra fee is emitted as a line of its own *)
assemble_line_items_fee_line(st, qc, metal_key) ==
       cad_lines(qc)
    \o metal_lines(st, qc, metal_key)
    \o (IF is_platinum(metal_key) /\ Get(qc, "add_platinum_extra_fee", TRUE)
        THEN << [label |-> Label("Platinum extra fee", <<>>),
                 amount |-> Dollars(Get(st, "platinum_extra_fee", 0)),
                 taxable |-> Get(qc, "tax_metal", TRUE),
                 kind |-> "platinum_fee"] >>
        ELSE <<>>)
    \o center_stone_lines(qc)
    \o trim_stone_lines(qc)
    \o center_setting_lines(qc)
    \o trim_setting_labor_lines(qc)
    \o additional_charge_lines(qc)

(* variant: the stones are listed before the metal *)
assemble_line_items_stones_first(st, qc, metal_key) ==
       cad_lines(qc)
    \o center_stone_lines(qc)
    \o trim_stone_lines(qc)
    \o metal_lines(st, qc, metal_key)
    \o center_setting_lines(qc)
    \o trim_setting_labor_lines(qc)
    \o additional_charge_lines(qc)

assemble_line_items(st, qc, metal_key) ==
       cad_lines(qc)
    \o metal_lines(st, qc, metal_key)
    \o center_stone_lines(qc)
    \o trim_stone_lines(qc)
    \o center_setting_lines(qc)
    \o trim_setting_labor_lines(qc)
    \o additional_charge_lines(qc)

(* variant: the subtotal leaves out the lines that are not taxable *)
subtotal_pre_tax_taxable_only(line_items) == SumAmounts(SelectTaxable(line_items))

subtotal_pre_tax_of(line_items) == SumAmounts(line_items)

(* variant: the taxable subtotal ignores the taxable flags *)
taxable_subtotal_all_lines(line_items) == SumAmounts(line_items)

taxable_subtotal_pre_tax_of(line_items) == SumAmounts(SelectTaxable(line_items))

(* variant: the tax is rounded to whole dollars *)
tax_rounded(taxable_subtotal_pre_tax, tax_rate) ==
    Dollars(PyRound(Pct(taxable_subtotal_pre_tax, tax_rate)))

tax_of(taxable_subtotal_pre_tax, tax_rate) == Pct(taxable_subtotal_pre_tax, tax_rate)

total_with_tax_of(subtotal_pre_tax, tax) == MAdd(subtotal_pre_tax, tax)

(* variant: the deposit is rounded to the nearest 5 as in the table-based engine *)
deposit_rounded_to_5(subtotal_pre_tax, deposit_rate) ==
    Dollars(PyRoundFifth(Pct(subtotal_pre_tax, deposit_rate)) * 5)

deposit_of(subtotal_pre_tax, deposit_rate) == Pct(subtotal_pre_tax, deposit_rate)

(* variant: tax, total and deposit are taken from the rounded subtotal *)
quote_totals_from_rounded(st, metal_key, line_items) ==
    LET tax_rate == Get(st, "tax_rate", 0)
        deposit_rate == Get(st, "deposit_rate", 50)
        rounding_rule == Get(st, "rounding", none)
        subtotal_pre_tax == subtotal_pre_tax_of(line_items)
        rounded == round_money(subtotal_pre_tax, rounding_rule)
        taxable_subtotal_pre_tax == taxable_subtotal_pre_tax_of(line_items)
        tax == tax_of(taxable_subtotal_pre_tax, tax_rate)
    IN  [metal_key |-> metal_key,
         line_items |-> line_items,
         subtotal_pre_tax |-> subtotal_pre_tax,
         rounded_subtotal_pre_tax |-> rounded,
         taxable_subtotal_pre_tax |-> taxable_subtotal_pre_tax,
         tax_rate |-> tax_rate,
         tax |-> tax,
         total_with_tax |-> total_with_tax_of(rounded, tax),
         deposit_rate |-> deposit_rate,
         deposit |-> deposit_of(rounded, deposit_rate),
         rounding_rule |-> rounding_rule]

(* pricing.py 53-55 and 193-218: the numeric summary folded from the line items *)
quote_totals(st, metal_key, line_items) ==
    LET tax_rate == Get(st, "tax_rate", 0)
        deposit_rate == Get(st, "deposit_rate", 50)
        rounding_rule == Get(st, "rounding", none)
        subtotal_pre_tax == subtotal_pre_tax_of(line_items)
        taxable_subtotal_pre_tax == taxable_subtotal_pre_tax_of(line_items)
        tax == tax_of(taxable_subtotal_pre_tax, tax_rate)
    IN  [metal_key |-> metal_key,
         line_items |-> line_items,
         subtotal_pre_tax |-> subtotal_pre_tax,
         rounded_subtotal_pre_tax |-> round_money(subtotal_pre_tax, rounding_rule),
         taxable_subtotal_pre_tax |-> taxable_subtotal_pre_tax,
         tax_rate |-> tax_rate,
         tax |-> tax,
         total_with_tax |-> total_with_tax_of(subtotal_pre_tax, tax),
         deposit_rate |-> deposit_rate,
         deposit |-> deposit_of(subtotal_pre_tax, deposit_rate),
         rounding_rule |-> rounding_rule]

compute_quote_for_metal(st, qc, metal_key) ==
    quote_totals(st, metal_key, assemble_line_items(st, qc, metal_key))

(* variant: the legacy fallback row is stored in the caller's job description *)
left_by_call_legacy_stored(st, qc, metal_key) ==
    IF /\ Get(qc, "trim_setting_lines", <<>>) = <<>>
       /\ Get(qc, "trim_setting_qty", 0) > 0
       /\ Get(qc, "trim_setting_rate", 0) > 0
    THEN [settings |-> st,
          quote_core |-> ("trim_setting_lines" :>
                             << [desc |-> <<>>, qty |-> qc.trim_setting_qty,
                                 rate |-> qc.trim_setting_rate] >>) @@ qc]
    ELSE [settings |-> st, quote_core |-> qc]

(* the two dicts as one call of compute_quote_for_metal leaves them: the    *)
(* function reads them with .get and assigns to its locals only (the legacy *)
(* fallback at pricing.py 155 rebinds the local trim_setting_lines)         *)
left_by_call(st, qc, metal_key) == [settings |-> st, quote_core |-> qc]

(* the two dicts after one call per metal key, in order *)
RECURSIVE left_by_calls(_, _, _)
left_by_calls(st, qc, metal_keys) ==
    IF metal_keys = <<>> THEN [settings |-> st, quote_core |-> qc]
    ELSE LET left == left_by_call(st, qc, Head(metal_keys))
         IN  left_by_calls(left.settings, left.quote_core, Tail(metal_keys))

compute_quote_multi(st, qc, metal_keys) ==
    [options |-> [i \in 1..Len(metal_keys) |-> compute_quote_for_metal(st, qc, metal_keys[i])]]

----------------------------------------------------------------------------
(* Table-based engine: src/pricing.py *)

(* variant: a size that is not in the table takes the last row of the table *)
_trim_row_for_mm_nearest(trim_table, mm) ==
    IF trim_table = <<>> THEN <<>>
    ELSE IF \E i \in DOMAIN trim_table : trim_table[i].mm = mm
         THEN trim_table[CHOOSE i \in DOMAIN trim_table :
                             /\ trim_table[i].mm = mm
                             /\ \A j \in DOMAIN trim_table : trim_table[j].mm = mm => i <= j]
         ELSE trim_table[Len(trim_table)]

(* first row of the trim table with this mm value, <<>> standing for None *)
RECURSIVE _trim_row_for_mm(_, _)
_trim_row_for_mm(trim_table, mm) ==
    IF trim_table = <<>> THEN <<>>
    ELSE IF Head(trim_table).mm = mm THEN Head(trim_table)
    ELSE _trim_row_for_mm(Tail(trim_table), mm)

(* variant: a carat in no band takes the price of the last band below it *)
RECURSIVE get_default_center_price_per_ct_band_below(_, _)
get_default_center_price_per_ct_band_below(ranges, ct) ==
    IF ranges = <<>> THEN <<>>
    ELSE LET rr == Head(ranges)
             later == get_default_center_price_per_ct_band_below(Tail(ranges), ct)
         IN  IF ct >= rr.min_ct /\ ct <= rr.max_ct THEN <<rr.price_per_ct>>
             ELSE IF later # <<>> THEN later
             ELSE IF ct > rr.max_ct THEN <<rr.price_per_ct>>
             ELSE <<>>

(* the price of the first range holding ct, as a sequence of one element;   *)
(* <<>> stands for None.  ranges is                                         *)
(* settings["center_stone"]["lab_diamond_price_per_ct_ranges"], carats in   *)
(* thousandths                                                              *)
RECURSIVE get_default_center_price_per_ct(_, _)
get_default_center_price_per_ct(ranges, ct) ==
    IF ranges = <<>> THEN <<>>
    ELSE LET rr == Head(ranges)
         IN  IF ct >= rr.min_ct /\ ct <= rr.max_ct THEN <<rr.price_per_ct>>
             ELSE get_default_center_price_per_ct(Tail(ranges), ct)

_round_money(st, x) ==
    IF Get(st, "rounding", "nearest_dollar") = "nearest_dollar"
    THEN Dollars(PyRound(x))
    ELSE x

_round_to_5(x) == Dollars(PyRoundFifth(x) * 5)

cq_cad_lines(st, a) ==
    IF a.cad_fee > 0
    THEN << [label |-> Label("CAD / design fee", <<>>),
             amount |-> _round_money(st, Dollars(a.cad_fee)),
             taxable |-> TRUE] >>
    ELSE <<>>

(* settings["metals"][metal_type] is a plain subscript: KeyError when absent *)
cq_metal_raises(st, a) ==
    /\ a.metal_weight_value > 0
    /\ a.metal_type \notin DOMAIN st.metals

cq_metal_lines(st, a) ==
    LET (* weight in 10^-4 DWT; 0.643 is written inline at pricing.py:68 *)
        dwt == IF a.metal_weight_unit = Grams
               THEN a.metal_weight_value * 643
               ELSE a.metal_weight_value * 1000
        cost_per_dwt == st.metals[a.metal_type]
        fee == IF a.add_platinum_casting /\ is_platinum(a.metal_type)
               THEN Dollars(Get(st.fees, "platinum_casting_fee", 0))
               ELSE Zero
        metal_amount == MAdd(MulMicro(dwt * 100, cost_per_dwt), fee)
    IN  IF a.metal_weight_value > 0
        THEN << [label |-> Label("Metal ({})", <<a.metal_type>>),
                 amount |-> _round_money(st, metal_amount),
                 taxable |-> TRUE] >>
        ELSE <<>>

(* ct in thousandths of a carat, markup in tenths *)
cq_center_lines(st, a) ==
    LET center == a.center
        ctype == Get(center, "type", "None")
        ct == Get(center, "ct", 0)
        price_per_ct == Get(center, "price_per_ct", 0)
        cost == Get(center, "cost", 0)
        markup == Get(center, "markup", 0)
        price == Get(center, "price", 0)
        lab_amount == MulMicro(ct * 1000, price_per_ct)
        markup_amount == MulMicro(markup * 100000, cost)
    IN  IF ctype = "Lab diamond (price/ct by range)" THEN
            IF MPos(lab_amount)
            THEN << [label |-> Label("Center stone (lab) {:.2f}ct @ ${:,.0f}/ct",
                                     <<ct, price_per_ct>>),
                     amount |-> _round_money(st, lab_amount)] >>
            ELSE <<>>
        ELSE IF ctype = "Natural diamond (cost x markup)" THEN
            IF MPos(markup_amount)
            THEN << [label |-> Label("Center stone (natural) cost ${:,.0f} x {:.2f}",
                                     <<cost, markup>>),
                     amount |-> _round_money(st, markup_amount)] >>
            ELSE <<>>
        ELSE IF ctype = "Colored / calibrated (cost x markup)" THEN
            IF MPos(markup_amount)
            THEN << [label |-> Label("Center stone (colored) cost ${:,.0f} x {:.2f}",
                                     <<cost, markup>>),
                     amount |-> _round_money(st, markup_amount)] >>
            ELSE <<>>
        ELSE IF ctype = "Custom line item" THEN
            IF price > 0
            THEN << [label |-> Label(Get(center, "label", "Center stone"), <<>>),
                     amount |-> _round_money(st, Dollars(price)),
                     taxable |-> Get(center, "taxable", TRUE)] >>
            ELSE <<>>
        ELSE <<>>

(* detail tuples (mm, qty, total_ct, retail_per_ct, price) of the priced items; *)
(* mm in tenths of a millimetre, ct_each and total_ct in thousandths of a carat *)
RECURSIVE cq_trim_details(_, _)
cq_trim_details(st, items) ==
    IF items = <<>> THEN <<>>
    ELSE LET item == Head(items)
             rest == cq_trim_details(st, Tail(items))
             row == _trim_row_for_mm(st.trim_table, item.mm)
             override == item.retail_per_ct_override
             retail_per_ct == IF override # 0 THEN override ELSE row.retail_per_ct
             total_ct == row.ct_each * Get(item, "qty", 0)
         IN  IF Get(item, "qty", 0) <= 0 THEN rest
             ELSE IF row = <<>> THEN rest
             ELSE << [mm |-> item.mm, qty |-> item.qty, total_ct |-> total_ct,
                      retail_per_ct |-> retail_per_ct,
                      amount |-> MulMicro(total_ct * 1000, retail_per_ct)] >> \o rest

cq_trim_lines(st, a) ==
    LET trim_details ==
            IF Get(a.trim, "enabled", FALSE) /\ Get(a.trim, "items", <<>>) # <<>>
            THEN cq_trim_details(st, a.trim.items)
            ELSE <<>>
        trim_total == SumAmounts(trim_details)
    IN  IF MPos(trim_total)
        THEN << [label |-> Label("Trim stones", <<>>),
                 amount |-> _round_money(st, trim_total),
                 details |-> trim_details,
                 taxable |-> TRUE] >>
        ELSE <<>>

(* variant: the fancy-center bucket is looked up before the round-center bucket *)
_rate_for_style_fancy_first(lr, style) ==
    IF style \in DOMAIN lr.fancy_center THEN lr.fancy_center[style]
    ELSE IF style \in DOMAIN lr.round_center THEN lr.round_center[style]
    ELSE IF style \in DOMAIN lr.round_trim THEN lr.round_trim[style]
    ELSE IF style \in DOMAIN lr.fancy_trim THEN lr.fancy_trim[style]
    ELSE 0

_rate_for_style(lr, style) ==
    IF style \in DOMAIN lr.round_center THEN lr.round_center[style]
    ELSE IF style \in DOMAIN lr.fancy_center THEN lr.fancy_center[style]
    ELSE IF style \in DOMAIN lr.round_trim THEN lr.round_trim[style]
    ELSE IF style \in DOMAIN lr.fancy_trim THEN lr.fancy_trim[style]
    ELSE 0

cq_setting_line(st, style, qty, fmt) ==
    LET amt == _rate_for_style(st.labor_rates, style) * qty
    IN  IF style # "" /\ style # "None" /\ amt > 0
        THEN << [label |-> Label(fmt, <<style>>),
                 amount |-> _round_money(st, Dollars(amt)),
                 taxable |-> TRUE] >>
        ELSE <<>>

cq_labor_lines(st, a) ==
       cq_setting_line(st, Get(a.labor, "center_setting_style", "None"),
                       Get(a.labor, "center_setting_qty", 0), "Set center stone ({})")
    \o cq_setting_line(st, Get(a.labor, "trim_setting_style", "None"),
                       Get(a.labor, "trim_setting_qty", 0), "Set trim stones ({})")

cq_fee_line(st, a, flag, label, fee_key) ==
    IF Get(a.misc, flag, FALSE)
    THEN << [label |-> Label(label, <<>>),
             amount |-> _round_money(st, Dollars(Get(st.fees, fee_key, 0))),
             taxable |-> TRUE] >>
    ELSE <<>>

cq_misc_lines(st, a) ==
    LET misc_amount == Get(a.misc, "amount", 0)
        misc_desc == strip(Get(a.misc, "description", <<>>))
    IN     cq_fee_line(st, a, "rhodium", "Rhodium", "rhodium_fee")
        \o cq_fee_line(st, a, "polishing", "Polishing / finishing", "polishing_fee")
        \o cq_fee_line(st, a, "engraving", "Engraving", "engraving_fee")
        \o cq_fee_line(st, a, "shipping", "Shipping", "shipping_fee")
        \o (IF misc_amount > 0
            THEN << [label |-> IF misc_desc # <<>>
                               THEN Label("Misc.: {}", <<misc_desc>>)
                               ELSE Label("Misc.", <<>>),
                     amount |-> _round_money(st, Dollars(misc_amount)),
                     taxable |-> Get(a.misc, "taxable", TRUE)] >>
            ELSE <<>>)

cq_line_items(st, a) ==
       cq_cad_lines(st, a)
    \o cq_metal_lines(st, a)
    \o cq_center_lines(st, a)
    \o cq_trim_lines(st, a)
    \o cq_labor_lines(st, a)
    \o cq_misc_lines(st, a)

cq_subtotal(line_items) == SumAmounts(line_items)

cq_tax(st, subtotal) == _round_money(st, Pct(subtotal, Get(st, "tax_rate", 0)))

(* variant: the total is left unrounded *)
cq_total_unrounded(raw_total) == raw_total

cq_total(raw_total) == _round_to_5(raw_total)

(* variant: the deposit is left unrounded *)
cq_deposit_unrounded(st, total) == Pct(total, Get(st, "deposit_rate", 50))

cq_deposit(st, total) == _round_to_5(Pct(total, Get(st, "deposit_rate", 50)))

(* the quote compute_quote returns, or [raised |-> TRUE] when it raises *)
compute_quote(st, a) ==
    IF cq_metal_raises(st, a) THEN [raised |-> TRUE]
    ELSE LET line_items == cq_line_items(st, a)
             subtotal == cq_subtotal(line_items)
             tax == cq_tax(st, subtotal)
             raw_total == MAdd(subtotal, tax)
             total == cq_total(raw_total)
         IN  [raised |-> FALSE,
              notes |-> a.notes,
              line_items |-> line_items,
              subtotal |-> subtotal,
              tax |-> tax,
              total |-> total,
              deposit |-> cq_deposit(st, total),
              tax_rate |-> Get(st, "tax_rate", 0),
              deposit_rate |-> Get(st, "deposit_rate", 50),
              raw_total |-> raw_total]

----------------------------------------------------------------------------
(* The multi-metal app (src/app.py): session settings, the job description *)
(* it assembles, the metals selected, and the preview computed on each run *)
(*                                                                         *)
(* app.py 222-255 writes every key of quote_core on every run, a widget    *)
(* left alone giving its default.  Each of those defaults is the default   *)
(* the engine reads for an absent key (pricing.py 58-184), so the model    *)
(* keeps a key out of quote_core until a value is entered for it.          *)
(*                                                                         *)
(* The engine is a module-level function and its contract covers job       *)
(* descriptions the widgets of app.py cannot produce.  The value sets      *)
(* below hold such inputs, as a direct caller passes them: a negative       *)
(* metal weight, quantity or rate (the widgets have min_value = 0), a       *)
(* description                                                              *)
(* that is one space (app.py strips it), and the legacy keys               *)
(* trim_setting_qty / trim_setting_rate (pricing.py 151-155).  A direct    *)
(* caller may also set quote_core["rounding_rule"] apart from              *)
(* settings["rounding"]; app.py 254 and 260 set both from one widget.      *)

Settings0 ==
    [tax_rate |-> 7,
     deposit_rate |-> 50,
     rounding |-> none,
     metals_retail_per_dwt |-> (K14Yellow :> 120) @@ (Platinum :> 150),
     platinum_density_ratio |-> 138,
     platinum_extra_fee |-> 100]

(* metal keys an engine may be called with; Silver has no rate in either table *)
MetalKeys == {K14Yellow, Platinum, Silver}

RoundingRules == {none, nearest_dollar, nearest_5}

TaxToggleKeys ==
    {"tax_cad", "tax_metal", "tax_center_stone", "tax_trim_stones", "tax_labor",
     "tax_appraisal", "tax_engraving", "tax_shipping", "tax_rhodium"}

ChargeKeys == {"appraisal", "engraving", "shipping", "rhodium"}

(* the values a caller may put under each scalar key of the job description *)
JobFieldValues ==
    [cad_fee |-> {150},
     metal_weight_value |-> {-10, 100, 102},
     metal_weight_unit |-> {Grams},
     add_platinum_extra_fee |-> {FALSE},
     center_stone_desc |-> {Ruby, Blank},
     center_stone_price |-> {500},
     center_stone_customer_supplied |-> {TRUE},
     center_setting_labor |-> {75},
     trim_setting_qty |-> {4},
     trim_setting_rate |-> {10},
     appraisal |-> {100},
     engraving |-> {40},
     shipping |-> {25},
     rhodium |-> {60},
     rounding_rule |-> {nearest_5}]

(* between the two lists: a zero and a negative quantity, a zero and a      *)
(* negative price                                                           *)
TrimStoneRows ==
    { [desc |-> <<>>, qty |-> 3, price_each |-> 40],
      [desc |-> <<>>, qty |-> 0, price_each |-> 999],
      [desc |-> <<>>, qty |-> 2, price_each |-> -5] }

TrimSettingRows ==
    { [desc |-> <<>>, qty |-> 2, rate |-> 15],
      [desc |-> <<>>, qty |-> -1, rate |-> 15],
      [desc |-> <<>>, qty |-> 3, rate |-> 0] }

Range(seq) == {seq[i] : i \in 1..Len(seq)}

(* how far the inputs are from the blank form *)
EditCost(st, qc, ms) ==
      Cardinality(DOMAIN qc \ {"trim_stones", "trim_setting_lines"})
    + Len(Get(qc, "trim_stones", <<>>))
    + Len(Get(qc, "trim_setting_lines", <<>>))
    + Cardinality({k \in DOMAIN Settings0 : st[k] # Settings0[k]})
    + Cardinality((Range(ms) \ {K14Yellow}) \cup ({K14Yellow} \ Range(ms)))

(* app.py 409-420: one engine call per selected metal, none when no metal *)
preview_opts(st, qc, ms) ==
    IF ms = <<>> THEN <<>>
    ELSE [i \in 1..Len(ms) |-> compute_quote_for_metal(st, qc, ms[i])]

(* app.py 289-294: the amount of the first metal line, 0.0 when there is none *)
metal_amount_of(opt) ==
    LET metal == SelectSeq(opt.line_items, LAMBDA li : Get(li, "kind", "") = "metal")
    IN  IF metal = <<>> THEN Zero ELSE metal[1].amount

(* app.py 286-301: the options of the generate branch and the shared list *)
generated_options(st, qc, ms) ==
    [i \in 1..Len(ms) |->
        LET opt == compute_quote_for_metal(st, qc, ms[i])
        IN  ("metal_amount" :> metal_amount_of(opt)) @@ opt]

(* variant: the shared list keeps the metal line of option 0 *)
shared_line_items_with_metal(opts) ==
    IF opts # <<>> THEN opts[1].line_items ELSE <<>>

shared_line_items(opts) ==
    IF opts # <<>>
    THEN SelectSeq(opts[1].line_items, LAMBDA li : Get(li, "kind", "") # "metal")
    ELSE <<>>

(* app.py 310-338, the keys the renderers read; the notes widget is left at *)
(* its default                                                              *)
quote_doc_of(st, qc, ms, notes) ==
    LET opts == generated_options(st, qc, ms)
    IN  [header |-> [notes |-> strip(notes)],
         shared_line_items |-> shared_line_items(opts),
         metal_options |->
             [i \in 1..Len(opts) |->
                 [metal_key |-> opts[i].metal_key,
                  metal_amount |-> Get(opts[i], "metal_amount", Zero),
                  subtotal_pre_tax |-> opts[i].subtotal_pre_tax,
                  rounded_subtotal_pre_tax |-> opts[i].rounded_subtotal_pre_tax,
                  tax |-> opts[i].tax,
                  total_with_tax |-> opts[i].total_with_tax,
                  deposit |-> opts[i].deposit]],
         rounding_rule |-> Get(st, "rounding", none)]

OutputModes == {"Customer + Internal PDFs", "Customer PDF only"}

(* app.py 348-369: the files of one generation, in the order rendered *)
rendered_files(output_mode) ==
       << [file |-> "pdf", customer_view |-> TRUE] >>
    \o (IF output_mode = "Customer + Internal PDFs"
        THEN << [file |-> "pdf", customer_view |-> FALSE] >>
        ELSE <<>>)
    \o << [file |-> "png", customer_view |-> TRUE] >>

(* variant: the generate branch does not look at the selection *)
multi_run_generate_unguarded(st, qc, ms, generate, output_mode) ==
    [generate |-> generate,
     calls |-> (IF generate /\ ms # <<>> THEN Len(ms) ELSE 0)
                   + (IF ms # <<>> THEN Len(ms) ELSE 0),
     shown |-> (IF generate THEN {"success"} ELSE {})
                   \cup (IF ms = <<>> THEN {"info"} ELSE {}),
     built |-> generate,
     quote_doc |-> IF generate THEN quote_doc_of(st, qc, ms, <<>>) ELSE <<>>,
     rendered |-> IF generate THEN rendered_files(output_mode) ELSE <<>>]

(* app.py 262-433: what a run does, with the generate button clicked or not *)
multi_run(st, qc, ms, generate, output_mode) ==
    [generate |-> generate,
     calls |-> (IF generate /\ ms # <<>> THEN Len(ms) ELSE 0)
                   + (IF ms # <<>> THEN Len(ms) ELSE 0),
     shown |-> (IF generate THEN IF ms = <<>> THEN {"error"} ELSE {"success"} ELSE {})
                   \cup (IF ms = <<>> THEN {"info"} ELSE {}),
     built |-> generate /\ ms # <<>>,
     quote_doc |-> IF generate /\ ms # <<>> THEN quote_doc_of(st, qc, ms, <<>>) ELSE <<>>,
     rendered |-> IF generate /\ ms # <<>> THEN rendered_files(output_mode) ELSE <<>>]

(* a button read True in the last run.  The sessions explored end with    *)
(* such a click: the run that an edit after it causes is the run the same   *)
(* edit causes from the same widget values without it (a button reads True  *)
(* in one run only, app.py 220, app_quote.py 303, 316)                      *)
Clicked == run.generate \/ run.rendered # <<>>

(* one run of the script with the given widget values *)
RunScript(st, qc, ms, generate, output_mode) ==
    /\ app = "multi"
    /\ settings' = left_by_calls(st, qc, ms).settings
    /\ quote_core' = left_by_calls(st, qc, ms).quote_core
    /\ metals_selected' = ms
    /\ options' = preview_opts(st, qc, ms)
    /\ run' = multi_run(st, qc, ms, generate, output_mode)
    /\ UNCHANGED <<app, table_vars>>

(* a run caused by a widget edit: the generate button reads False *)
Rerun(st, qc, ms) ==
    /\ app = "multi"
    /\ ~Clicked
    /\ EditCost(st, qc, ms) <= MaxEdits
    /\ RunScript(st, qc, ms, FALSE, "Customer + Internal PDFs")

(* app.py 220, 262: a click on "Generate quote files"; the click counts as  *)
(* one edit                                                                 *)
GenerateQuoteFiles ==
    /\ app = "multi"
    /\ ~Clicked
    /\ EditCost(settings, quote_core, metals_selected) + 1 <= MaxEdits
    /\ \E output_mode \in OutputModes :
          RunScript(settings, quote_core, metals_selected, TRUE, output_mode)

SetJobField(k, v) ==
    /\ k \notin DOMAIN quote_core
    /\ Rerun(settings, (k :> v) @@ quote_core, metals_selected)

EnterCadFee == \E v \in JobFieldValues.cad_fee : SetJobField("cad_fee", v)

EnterMetalWeight ==
    \/ \E v \in JobFieldValues.metal_weight_value : SetJobField("metal_weight_value", v)
    \/ \E v \in JobFieldValues.metal_weight_unit : SetJobField("metal_weight_unit", v)

TogglePlatinumFee ==
    \E v \in JobFieldValues.add_platinum_extra_fee : SetJobField("add_platinum_extra_fee", v)

EnterCenterStone ==
    \E k \in {"center_stone_desc", "center_stone_price", "center_stone_customer_supplied"} :
        \E v \in JobFieldValues[k] : SetJobField(k, v)

AddTrimStoneLine ==
    \E row \in TrimStoneRows :
        Rerun(settings,
              ("trim_stones" :> Append(Get(quote_core, "trim_stones", <<>>), row)) @@ quote_core,
              metals_selected)

EnterCenterSettingLabor ==
    \E v \in JobFieldValues.center_setting_labor : SetJobField("center_setting_labor", v)

AddTrimSettingLine ==
    \E row \in TrimSettingRows :
        Rerun(settings,
              ("trim_setting_lines" :> Append(Get(quote_core, "trim_setting_lines", <<>>), row))
                  @@ quote_core,
              metals_selected)

EnterLegacyTrimSetting ==
    \E k \in {"trim_setting_qty", "trim_setting_rate"} :
        \E v \in JobFieldValues[k] : SetJobField(k, v)

EnterCharge == \E k \in ChargeKeys : \E v \in JobFieldValues[k] : SetJobField(k, v)

(* the checkbox value that differs from the engine's default for the category *)
ToggleValue(k) == k = "tax_shipping"

SetTaxToggle == \E k \in TaxToggleKeys : SetJobField(k, ToggleValue(k))

SetJobRoundingRule ==
    \E v \in JobFieldValues.rounding_rule : SetJobField("rounding_rule", v)

SetTaxRate ==
    \E v \in {0, 7} : Rerun([settings EXCEPT !.tax_rate = v], quote_core, metals_selected)

SetDepositRate ==
    \E v \in {30, 50} : Rerun([settings EXCEPT !.deposit_rate = v], quote_core, metals_selected)

SetRounding ==
    \E v \in RoundingRules : Rerun([settings EXCEPT !.rounding = v], quote_core, metals_selected)

(* app.py 107-112: the multiselect offers the keys of the rate table *)
SelectMetal ==
    \E mk \in DOMAIN Get(settings, "metals_retail_per_dwt", <<>>) \ Range(metals_selected) :
        Rerun(settings, quote_core, Append(metals_selected, mk))

DeselectMetal ==
    \E mk \in Range(metals_selected) :
        Rerun(settings, quote_core, SelectSeq(metals_selected, LAMBDA m : m # mk))

InitMulti ==
    /\ app = "multi"
    /\ settings = Settings0
    /\ quote_core = <<>>
    /\ metals_selected = <<K14Yellow>>
    /\ options = preview_opts(Settings0, <<>>, <<K14Yellow>>)
    /\ run = multi_run(Settings0, <<>>, <<K14Yellow>>, FALSE, "Customer + Internal PDFs")
    /\ session_state = <<>>
    /\ inputs = <<>>
    /\ selected_metals = <<>>
    /\ quotes = <<>>

----------------------------------------------------------------------------
(* The table-based app (src/app_quote.py).  settings.json is not part of    *)
(* the sources: TableSettings gives the keys compute_quote reads.  The      *)
(* negative metal weight is an argument a direct caller of compute_quote    *)
(* passes; the widget of app_quote.py 80 has min_value = 0.                 *)

TableSettings(rounding, deposit_rate) ==
    [rounding |-> rounding,
     tax_rate |-> 7,
     deposit_rate |-> deposit_rate,
     metals |-> (K14Yellow :> 120) @@ (Platinum :> 150),
     fees |-> [platinum_casting_fee |-> 100, rhodium_fee |-> 60, polishing_fee |-> 0,
               engraving_fee |-> 40, shipping_fee |-> 25],
     center_stone |->
         [lab_diamond_price_per_ct_ranges |->
              << [min_ct |-> 500, max_ct |-> 990, price_per_ct |-> 800],
                 [min_ct |-> 1500, max_ct |-> 2000, price_per_ct |-> 1200] >>],
     trim_table |-> << [mm |-> 10, ct_each |-> 5, retail_per_ct |-> 1000],
                       [mm |-> 15, ct_each |-> 15, retail_per_ct |-> 1200] >>,
     labor_rates |-> [round_center |-> ("Prong" :> 50),
                      fancy_center |-> ("Prong" :> 70) @@ ("Bezel" :> 90),
                      round_trim |-> ("Pave" :> 12),
                      fancy_trim |-> ("Pave" :> 15) @@ ("Channel" :> 18)]]

TableSettingsChoices ==
    {TableSettings("nearest_dollar", 50), TableSettings("none", 30)}

GiftBox == <<"G", "i", "f", "t">>

DefaultTrimWidgets == [mm |-> 10, qty |-> 0, ov |-> 0]

(* the form as first rendered: app_quote.py 59-206 widget defaults *)
Inputs0 ==
    [notes |-> "",
     cad_fee |-> 0,
     metal_weight_value |-> 0,
     metal_weight_unit |-> DWT,
     add_platinum_casting |-> FALSE,
     center |-> [type |-> "None"],
     trim_enabled |-> FALSE,
     trim_widgets |-> <<>>,
     labor |-> [center_setting_style |-> "None", center_setting_qty |-> 1,
                trim_setting_style |-> "None", trim_setting_qty |-> 0],
     misc |-> [rhodium |-> FALSE, polishing |-> FALSE, engraving |-> FALSE,
               shipping |-> FALSE, description |-> <<>>, amount |-> 0, taxable |-> TRUE]]

ScalarInputValues ==
    [cad_fee |-> {150},
     metal_weight_value |-> {-10, 1, 100},
     metal_weight_unit |-> {Grams},
     add_platinum_casting |-> {TRUE}]

CenterChoices ==
    { [type |-> "Lab diamond (price/ct by range)", ct |-> 1000, price_per_ct |-> 800],
      [type |-> "Natural diamond (cost x markup)", cost |-> 200, markup |-> 27],
      [type |-> "Colored / calibrated (cost x markup)", cost |-> 101, markup |-> 25],
      [type |-> "Custom line item", label |-> "Center stone", price |-> 300, taxable |-> TRUE],
      [type |-> "Custom line item", label |-> "Center stone", price |-> 300, taxable |-> FALSE],
      [type |-> "Custom line item", label |-> "Center stone", price |-> 0, taxable |-> TRUE] }

(* carat weights entered for a lab diamond whose price is left at the default *)
LabCaratValues == {750, 1250}

(* app_quote.py 108-112: the price widget starts at the default of the      *)
(* carat's range, or at 0.0 when there is none                              *)
lab_center(st, ct) ==
    LET default == get_default_center_price_per_ct(
                       st.center_stone.lab_diamond_price_per_ct_ranges, ct)
        default_ppct == IF default = <<>> THEN 0 ELSE default[1]
    IN  [type |-> "Lab diamond (price/ct by range)", ct |-> ct, price_per_ct |-> default_ppct]

LaborValues ==
    [center_setting_style |-> {"Prong", "Halo"},
     center_setting_qty |-> {0},
     trim_setting_style |-> {"Pave", "Prong"},
     trim_setting_qty |-> {3}]

MiscValues ==
    [rhodium |-> {TRUE}, polishing |-> {TRUE}, engraving |-> {TRUE}, shipping |-> {TRUE},
     description |-> {GiftBox}, amount |-> {80}, taxable |-> {FALSE}]

TrimWidgetValues == [mm |-> {15, 20}, qty |-> {2}, ov |-> {900}]

Differing(f, g) == Cardinality({k \in DOMAIN f : f[k] # g[k]})

RECURSIVE TrimWidgetCost(_)
TrimWidgetCost(rows) ==
    IF rows = <<>> THEN 0
    ELSE Differing(Head(rows), DefaultTrimWidgets) + TrimWidgetCost(Tail(rows))

TableEditCost(inp, sel, ss) ==
      Differing([k \in DOMAIN ScalarInputValues |-> inp[k]],
                [k \in DOMAIN ScalarInputValues |-> Inputs0[k]])
    + (IF inp.center = Inputs0.center THEN 0 ELSE 1)
    + (IF inp.trim_enabled THEN 1 ELSE 0)
    + (IF "trim_rows" \in DOMAIN ss THEN ss.trim_rows - 1 ELSE 0)
    + TrimWidgetCost(inp.trim_widgets)
    + Differing(inp.labor, Inputs0.labor)
    + Differing(inp.misc, Inputs0.misc)
    + Cardinality((Range(sel) \ {K14Yellow}) \cup ({K14Yellow} \ Range(sel)))

(* app_quote.py 130-156: the trim dict handed to the engine *)
trim_items(inp) ==
    IF inp.trim_enabled
    THEN [i \in 1..Len(inp.trim_widgets) |->
            [mm |-> inp.trim_widgets[i].mm,
             qty |-> inp.trim_widgets[i].qty,
             retail_per_ct_override |->
                 IF inp.trim_widgets[i].ov > 0 THEN inp.trim_widgets[i].ov ELSE 0]]
    ELSE <<>>

(* app_quote.py 225-240: the arguments of one compute_quote call *)
quote_args(inp, metal_type) ==
    [notes |-> inp.notes,
     cad_fee |-> inp.cad_fee,
     metal_type |-> metal_type,
     metal_weight_value |-> inp.metal_weight_value,
     metal_weight_unit |-> inp.metal_weight_unit,
     add_platinum_casting |-> inp.add_platinum_casting,
     center |-> inp.center,
     trim |-> [enabled |-> inp.trim_enabled, items |-> trim_items(inp)],
     labor |-> inp.labor,
     misc |-> inp.misc]

(* app_quote.py 73-76 and 223-241: no engine call when nothing is selected *)
compute_quotes(st, inp, sel) ==
    IF sel = <<>> THEN <<>>
    ELSE [m \in Range(sel) |-> compute_quote(st, quote_args(inp, m))]

(* app_quote.py 74-76, 223-241, 303-327: what a run does; buttons holds    *)
(* the file kinds of the Build buttons that read True in this run           *)
table_run(sel, buttons, customer_view) ==
    [generate |-> FALSE,
     calls |-> IF sel = <<>> THEN 0 ELSE Len(sel),
     shown |-> IF sel = <<>> THEN {"warning"} ELSE {},
     built |-> FALSE,
     quote_doc |-> <<>>,
     rendered |-> IF sel = <<>> THEN <<>>
                  ELSE [i \in 1..Len(buttons) |->
                           [file |-> buttons[i], customer_view |-> customer_view]]]

(* one run of the script with the given widget values and session state *)
RunTableScript(inp, sel, ss, buttons, customer_view) ==
    /\ app = "table"
    /\ inputs' = inp
    /\ selected_metals' = sel
    /\ session_state' = ss
    /\ quotes' = compute_quotes(settings, inp, sel)
    /\ run' = table_run(sel, buttons, customer_view)
    /\ UNCHANGED <<app, settings, multi_vars>>

(* a run caused by a widget edit: no Build button reads True *)
RerunTable(inp, sel, ss) ==
    /\ app = "table"
    /\ ~Clicked
    /\ TableEditCost(inp, sel, ss) <= MaxEdits
    /\ RunTableScript(inp, sel, ss, <<>>, TRUE)

(* every widget below the metal selector is rendered only after st.stop() is passed *)
FormShown == app = "table" /\ selected_metals # <<>>

EditScalarInput ==
    /\ FormShown
    /\ \E k \in DOMAIN ScalarInputValues : \E v \in ScalarInputValues[k] :
          /\ inputs[k] = Inputs0[k]
          /\ RerunTable([inputs EXCEPT ![k] = v], selected_metals, session_state)

ChooseCenter ==
    /\ FormShown
    /\ inputs.center = Inputs0.center
    /\ \/ \E c \in CenterChoices :
              RerunTable([inputs EXCEPT !.center = c], selected_metals, session_state)
       \/ \E ct \in LabCaratValues :
              RerunTable([inputs EXCEPT !.center = lab_center(settings, ct)],
                         selected_metals, session_state)

(* app_quote.py 129-136: ticking the box creates trim_rows = 1 if it is not there *)
EnableTrim ==
    /\ FormShown
    /\ ~inputs.trim_enabled
    /\ LET ss == IF "trim_rows" \in DOMAIN session_state
                 THEN session_state
                 ELSE ("trim_rows" :> 1) @@ session_state
       IN  RerunTable([inputs EXCEPT !.trim_enabled = TRUE,
                                     !.trim_widgets = [i \in 1..ss.trim_rows |-> DefaultTrimWidgets]],
                      selected_metals, ss)

DisableTrim ==
    /\ FormShown
    /\ inputs.trim_enabled
    /\ RerunTable([inputs EXCEPT !.trim_enabled = FALSE, !.trim_widgets = <<>>],
                  selected_metals, session_state)

(* app_quote.py 140-141 *)
AddTrimLine ==
    /\ FormShown
    /\ inputs.trim_enabled
    /\ RerunTable([inputs EXCEPT !.trim_widgets = Append(@, DefaultTrimWidgets)],
                  selected_metals,
                  [session_state EXCEPT !.trim_rows = @ + 1])

(* variant: the remove button is offered whatever the counter is *)
RemoveLastLine_always_offered ==
    /\ FormShown
    /\ inputs.trim_enabled
    /\ RerunTable([inputs EXCEPT !.trim_widgets = SubSeq(@, 1, Len(@) - 1)],
                  selected_metals,
                  [session_state EXCEPT !.trim_rows = @ - 1])

(* app_quote.py 143-144 *)
RemoveLastLine ==
    /\ FormShown
    /\ inputs.trim_enabled
    /\ session_state.trim_rows > 1
    /\ RerunTable([inputs EXCEPT !.trim_widgets = SubSeq(@, 1, Len(@) - 1)],
                  selected_metals,
                  [session_state EXCEPT !.trim_rows = @ - 1])

EditTrimWidget ==
    /\ FormShown
    /\ inputs.trim_enabled
    /\ \E i \in 1..Len(inputs.trim_widgets) :
       \E k \in DOMAIN TrimWidgetValues : \E v \in TrimWidgetValues[k] :
          /\ inputs.trim_widgets[i][k] = DefaultTrimWidgets[k]
          /\ RerunTable([inputs EXCEPT !.trim_widgets[i][k] = v],
                        selected_metals, session_state)

EditLabor ==
    /\ FormShown
    /\ \E k \in DOMAIN LaborValues : \E v \in LaborValues[k] :
          /\ inputs.labor[k] = Inputs0.labor[k]
          /\ RerunTable([inputs EXCEPT !.labor[k] = v], selected_metals, session_state)

EditMisc ==
    /\ FormShown
    /\ \E k \in DOMAIN MiscValues : \E v \in MiscValues[k] :
          /\ inputs.misc[k] = Inputs0.misc[k]
          /\ RerunTable([inputs EXCEPT !.misc[k] = v], selected_metals, session_state)

(* app_quote.py 72-73: the multiselect offers the keys of settings["metals"] *)
SelectMetalType ==
    /\ app = "table"
    /\ \E mk \in DOMAIN settings.metals \ Range(selected_metals) :
          RerunTable(inputs, Append(selected_metals, mk), session_state)

DeselectMetalType ==
    /\ app = "table"
    /\ \E mk \in Range(selected_metals) :
          RerunTable(inputs, SelectSeq(selected_metals, LAMBDA m : m # mk), session_state)

(* app_quote.py 49, 303, 316: a click on "Build PDF" or "Build PNG", with  *)
(* the customer-view toggle of the sidebar either way; the click counts as  *)
(* one edit                                                                 *)
BuildFile ==
    /\ FormShown
    /\ ~Clicked
    /\ TableEditCost(inputs, selected_metals, session_state) + 1 <= MaxEdits
    /\ \E file \in {"pdf", "png"} : \E customer_view \in BOOLEAN :
          RunTableScript(inputs, selected_metals, session_state, <<file>>, customer_view)

InitTable ==
    /\ app = "table"
    /\ settings \in TableSettingsChoices
    /\ session_state = <<>>
    /\ inputs = Inputs0
    /\ selected_metals = <<K14Yellow>>
    /\ quotes = compute_quotes(settings, Inputs0, <<K14Yellow>>)
    /\ run = table_run(<<K14Yellow>>, <<>>, TRUE)
    /\ quote_core = <<>>
    /\ metals_selected = <<>>
    /\ options = <<>>

----------------------------------------------------------------------------

Init == InitMulti \/ InitTable

(* the steps of the multi-metal app (src/app.py) *)
NextMulti ==
    \/ EnterCadFee
    \/ EnterMetalWeight
    \/ TogglePlatinumFee
    \/ EnterCenterStone
    \/ AddTrimStoneLine
    \/ EnterCenterSettingLabor
    \/ AddTrimSettingLine
    \/ EnterLegacyTrimSetting
    \/ EnterCharge
    \/ SetTaxToggle
    \/ SetJobRoundingRule
    \/ SetTaxRate
    \/ SetDepositRate
    \/ SetRounding
    \/ SelectMetal
    \/ DeselectMetal
    \/ GenerateQuoteFiles

(* the steps of the table-based app (src/app_quote.py) *)
NextTable ==
    \/ EditScalarInput
    \/ ChooseCenter
    \/ EnableTrim
    \/ DisableTrim
    \/ AddTrimLine
    \/ RemoveLastLine
    \/ EditTrimWidget
    \/ EditLabor
    \/ EditMisc
    \/ SelectMetalType
    \/ DeselectMetalType
    \/ BuildFile

Next == NextMulti \/ NextTable

Spec == Init /\ [][Next]_vars

(* either app alone *)
SpecMulti == InitMulti /\ [][NextMulti]_vars

SpecTable == InitTable /\ [][NextTable]_vars

----------------------------------------------------------------------------
(* Vocabulary of the properties *)

(* a * n for an integer 0 <= n <= 100 *)
MTimes(a, n) ==
    LET hi == (a.f \div 10000) * n
    IN  Norm(a.d * n + (hi \div 10000), (hi % 10000) * 10000 + (a.f % 10000) * n)

(* the sum of the amounts of items[1..n], accumulated from the left *)
RECURSIVE TotalOfFirst(_, _)
TotalOfFirst(items, n) ==
    IF n = 0 THEN Zero ELSE MAdd(TotalOfFirst(items, n - 1), items[n].amount)

TotalOf(items) == TotalOfFirst(items, Len(items))

TaxableItems(items) == SelectSeq(items, LAMBDA li : "taxable" \in DOMAIN li /\ li.taxable)

(* the quotes the table-based engine returned in the last run *)
ReturnedQuotes == {quotes[m] : m \in {k \in DOMAIN quotes : ~quotes[k].raised}}

(* the quotes the multi-metal engine returned in the last run *)
ReturnedOptions == Range(options)

----------------------------------------------------------------------------
(* C1: in both engines the returned pre-tax subtotal is the sum of the     *)
(* amounts of exactly the line items returned, with no other adjustment.   *)
C1_SubtotalIsSumOfLineItems ==
    /\ \A o \in ReturnedOptions : o.subtotal_pre_tax = TotalOf(o.line_items)
    /\ \A q \in ReturnedQuotes : q.subtotal = TotalOf(q.line_items)

(* a multi-metal quote with a non-taxable line among at least three lines *)
C1_Witness ==
    \E o \in ReturnedOptions :
        /\ Len(o.line_items) >= 3
        /\ \E i \in DOMAIN o.line_items :
              ~o.line_items[i].taxable /\ MPos(o.line_items[i].amount)

(* C2: in compute_quote_for_metal the taxable subtotal is the sum of the   *)
(* amounts of the lines flagged taxable, tax is exactly that sum times the *)
(* tax rate (no rounding), and total_with_tax is subtotal_pre_tax + tax.   *)
C2_TaxIsExactProduct ==
    \A o \in ReturnedOptions :
        /\ o.taxable_subtotal_pre_tax = TotalOf(TaxableItems(o.line_items))
        /\ o.tax_rate = Get(settings, "tax_rate", 0)
        /\ MTimes(o.tax, 100) = MTimes(o.taxable_subtotal_pre_tax, o.tax_rate)
        /\ o.total_with_tax = MAdd(o.subtotal_pre_tax, o.tax)

(* a quote whose tax is not a whole number of dollars and whose taxable    *)
(* subtotal is smaller than its subtotal                                   *)
C2_Witness ==
    \E o \in ReturnedOptions :
        /\ o.tax.f # 0
        /\ o.taxable_subtotal_pre_tax # o.subtotal_pre_tax
        /\ MPos(o.taxable_subtotal_pre_tax)


(* the lines not flagged non-taxable (a line carrying no flag counts as taxable) *)
NotFlaggedNonTaxable(items) ==
    SelectSeq(items, LAMBDA li : "taxable" \notin DOMAIN li \/ li.taxable)

(* C3: in compute_quote, tax is the tax rate times the sum of the amounts  *)
(* of the lines whose taxable flag is true; a line emitted with taxable =  *)
(* false (a custom center-stone line or a misc line whose taxable input is *)
(* false) contributes nothing to tax.  The product is compared after the   *)
(* money rounding the engine applies to every amount it reports.           *)
C3_TaxOnTaxableLinesOnly ==
    \A q \in ReturnedQuotes :
        q.tax = _round_money(settings,
                             Pct(TotalOf(NotFlaggedNonTaxable(q.line_items)), q.tax_rate))

(* every numeric input of the job description is non-negative *)
NonNegativeInputs ==
    \A k \in DOMAIN quote_core \cap
             {"cad_fee", "metal_weight_value", "center_stone_price", "center_setting_labor",
              "trim_setting_qty", "trim_setting_rate",
              "appraisal", "engraving", "shipping", "rhodium"} :
        quote_core[k] >= 0

AllTaxable(items) == \A i \in DOMAIN items : items[i].taxable

AllPricedTaxable(items) ==
    \A i \in DOMAIN items : items[i].amount # Zero => items[i].taxable

(* C4 as stated: with non-negative inputs taxable_subtotal_pre_tax is at   *)
(* most subtotal_pre_tax, and the two are equal if and only if every       *)
(* emitted line item is taxable, a named zero-price center stone included. *)
C4_EqualIffEveryLineTaxable ==
    NonNegativeInputs =>
        \A o \in ReturnedOptions :
            /\ MLeq(o.taxable_subtotal_pre_tax, o.subtotal_pre_tax)
            /\ (o.taxable_subtotal_pre_tax = o.subtotal_pre_tax) <=> AllTaxable(o.line_items)

(* C4 amended: with non-negative inputs taxable_subtotal_pre_tax is at     *)
(* most subtotal_pre_tax, and the two are equal if and only if every       *)
(* emitted line item whose amount is not zero is taxable.                  *)
C4_EqualIffEveryPricedLineTaxable ==
    NonNegativeInputs =>
        \A o \in ReturnedOptions :
            /\ MLeq(o.taxable_subtotal_pre_tax, o.subtotal_pre_tax)
            /\ (o.taxable_subtotal_pre_tax = o.subtotal_pre_tax)
                   <=> AllPricedTaxable(o.line_items)

(* a named, zero-price, non-taxable center stone next to a priced taxable  *)
(* line: the two subtotals are equal although one line is not taxable      *)
C4_Witness ==
    /\ NonNegativeInputs
    /\ \E o \in ReturnedOptions :
          /\ o.taxable_subtotal_pre_tax = o.subtotal_pre_tax
          /\ MPos(o.subtotal_pre_tax)
          /\ \E i \in DOMAIN o.line_items :
                /\ o.line_items[i].kind = "center_stone"
                /\ o.line_items[i].amount = Zero
                /\ ~o.line_items[i].taxable

NonMetal(items) == SelectSeq(items, LAMBDA li : li.kind # "metal")

(* app.py 297-301: the shared list is taken from option 0 *)
shared(opts) == IF opts # <<>> THEN NonMetal(opts[1].line_items) ELSE <<>>

(* C5: for a fixed configuration and job description the non-metal line    *)
(* items are the same, item for item and in the same order, for every      *)
(* metal key, so the shared list taken from option 0 is the one any option *)
(* would give.                                                             *)
C5_SharedItemsSameForEveryMetal ==
    /\ \A o \in ReturnedOptions : NonMetal(o.line_items) = shared(options)
    /\ app = "multi" =>
          LET others == [mk \in MetalKeys |->
                            NonMetal(compute_quote_for_metal(settings, quote_core, mk).line_items)]
          IN  \A a \in MetalKeys : \A b \in MetalKeys : others[a] = others[b]

(* two options with different metal lines and a non-empty shared list, one *)
(* of the metals being platinum with its extra fee                         *)
C5_Witness ==
    /\ shared(options) # <<>>
    /\ \E i \in DOMAIN options : \E j \in DOMAIN options :
          /\ is_platinum(options[i].metal_key)
          /\ Get(quote_core, "add_platinum_extra_fee", TRUE)
          /\ ~is_platinum(options[j].metal_key)
          /\ Len(options[i].line_items) > Len(shared(options))
          /\ options[i].subtotal_pre_tax # options[j].subtotal_pre_tax

(* every money amount of the quotes of the last run *)
AmountsOfItems(items) == {items[i].amount : i \in DOMAIN items}

AmountsInState ==
    UNION { AmountsOfItems(o.line_items)
            \cup {o.subtotal_pre_tax, o.taxable_subtotal_pre_tax, o.tax,
                  o.total_with_tax, o.deposit, o.rounded_subtotal_pre_tax}
          : o \in ReturnedOptions }
    \cup
    UNION { AmountsOfItems(q.line_items)
            \cup {q.subtotal, q.tax, q.raw_total, q.total, q.deposit}
          : q \in ReturnedQuotes }

(* C6: rounding is idempotent: round_money under each of the three rules,  *)
(* the nearest-5 helpers of both engines and _round_money of the           *)
(* table-based engine give the same result applied twice as applied once.  *)
C6_RoundingIdempotent ==
    \A x \in AmountsInState :
        /\ \A rule \in RoundingRules :
              round_money(round_money(x, rule), rule) = round_money(x, rule)
        /\ _round_nearest_5(_round_nearest_5(x)) = _round_nearest_5(x)
        /\ _round_to_5(_round_to_5(x)) = _round_to_5(x)
        /\ \A st \in TableSettingsChoices :
              _round_money(st, _round_money(st, x)) = _round_money(st, x)

(* an amount with a fractional part that each rounding rule changes *)
C6_Witness ==
    \E x \in AmountsInState :
        /\ x.f # 0
        /\ round_money(x, nearest_dollar) # x
        /\ round_money(x, nearest_5) # round_money(x, nearest_dollar)

WithoutRounding(o) ==
    [k \in DOMAIN o \ {"rounded_subtotal_pre_tax", "rounding_rule"} |-> o[k]]

(* C7: in compute_quote_for_metal the rounding rule changes only           *)
(* rounded_subtotal_pre_tax: line items, subtotal, taxable subtotal, tax,  *)
(* total and deposit are the same under the three rules; with subtotal     *)
(* 1374 and nearest_5 the rounded subtotal is 1375 and the total is still  *)
(* 1374 + tax.                                                             *)
C7_RoundingChangesOnlyRoundedSubtotal ==
    \A i \in DOMAIN options :
        /\ \A rule \in RoundingRules :
              WithoutRounding(compute_quote_for_metal([settings EXCEPT !.rounding = rule],
                                                      quote_core, metals_selected[i]))
                  = WithoutRounding(options[i])
        /\ (options[i].subtotal_pre_tax = Dollars(1374) /\ settings.rounding = nearest_5)
              => /\ options[i].rounded_subtotal_pre_tax = Dollars(1375)
                 /\ options[i].total_with_tax = MAdd(Dollars(1374), options[i].tax)
                 /\ MTimes(options[i].deposit, 100)
                        = MTimes(Dollars(1374), options[i].deposit_rate)

(* the scenario: subtotal 1374 under nearest_5, taxed *)
C7_Witness ==
    \E o \in ReturnedOptions :
        /\ settings.rounding = nearest_5
        /\ o.subtotal_pre_tax = Dollars(1374)
        /\ o.rounded_subtotal_pre_tax = Dollars(1375)
        /\ MPos(o.tax)

(* CAD fee 150 and a metal line of 1200 (10 DWT at 120), both taxable, tax *)
(* rate 7%, deposit rate 50%, no rounding, nothing else on the quote       *)
Scenario2(o) ==
    /\ Len(o.line_items) = 2
    /\ o.line_items[1].kind = "cad"
    /\ o.line_items[1].amount = Dollars(150)
    /\ o.line_items[1].taxable
    /\ o.line_items[2].kind = "metal"
    /\ o.line_items[2].amount = Dollars(1200)
    /\ o.line_items[2].taxable
    /\ o.line_items[2].meta.computed_dwt = 10 * Million
    /\ o.line_items[2].meta.rate_per_dwt = 120
    /\ o.tax_rate = 7
    /\ o.deposit_rate = 50
    /\ o.rounding_rule = none

(* C8: in compute_quote_for_metal the deposit is subtotal_pre_tax times    *)
(* deposit_rate, taken from the unrounded pre-tax subtotal and not from    *)
(* the total; the scenario above gives subtotal 1350.00, taxable subtotal  *)
(* 1350.00, tax 94.50, total 1444.50 and deposit 675.00.                   *)
C8_DepositFromPreTaxSubtotal ==
    \A o \in ReturnedOptions :
        /\ o.deposit_rate = Get(settings, "deposit_rate", 50)
        /\ MTimes(o.deposit, 100) = MTimes(o.subtotal_pre_tax, o.deposit_rate)
        /\ Scenario2(o) =>
              /\ o.subtotal_pre_tax = Dollars(1350)
              /\ o.taxable_subtotal_pre_tax = Dollars(1350)
              /\ o.tax = [d |-> 94, f |-> Half]
              /\ o.total_with_tax = [d |-> 1444, f |-> Half]
              /\ o.deposit = Dollars(675)

C8_Witness == \E o \in ReturnedOptions : Scenario2(o)

(* y is a multiple of 5 at distance at most 2.5 from x *)
NearestMultipleOf5(y, x) ==
    /\ y.f = 0
    /\ y.d % 5 = 0
    /\ MLeq(x, [d |-> y.d + 2, f |-> Half])
    /\ MLeq([d |-> y.d - 3, f |-> Half], x)

(* C9: in compute_quote the total is subtotal + tax rounded to the nearest *)
(* multiple of 5, the deposit is the rounded total times deposit_rate      *)
(* rounded to the nearest multiple of 5, and raw_total keeps the unrounded *)
(* subtotal + tax.                                                         *)
C9_TotalAndDepositRoundedTo5 ==
    \A q \in ReturnedQuotes :
        /\ q.raw_total = MAdd(q.subtotal, q.tax)
        /\ NearestMultipleOf5(q.total, q.raw_total)
        /\ q.deposit_rate = Get(settings, "deposit_rate", 50)
        /\ \E exact \in {Pct(q.total, q.deposit_rate)} :
              /\ MTimes(exact, 100) = MTimes(q.total, q.deposit_rate)
              /\ NearestMultipleOf5(q.deposit, exact)

(* a quote whose raw total is not a multiple of 5 and whose deposit is not *)
(* the exact share of the total                                            *)
C9_Witness ==
    \E q \in ReturnedQuotes :
        /\ q.total # q.raw_total
        /\ MTimes(q.deposit, 100) # MTimes(q.total, q.deposit_rate)
        /\ MPos(q.deposit)

MetalLines(items) ==
    SelectSeq(items, LAMBDA li : Get(li, "kind", "") = "metal" \/ li.label.fmt = "Metal ({})")

(* C10: in both engines a metal line item is emitted if and only if the    *)
(* weight in base units is greater than 0: none for a zero or negative     *)
(* weight, exactly one for a positive weight, whatever the metal rate.     *)
C10_MetalLineIffPositiveWeight ==
    /\ app = "multi" =>
          \A mk \in MetalKeys :
              Len(MetalLines(compute_quote_for_metal(settings, quote_core, mk).line_items)) =
                  IF weight_to_dwt(Get(quote_core, "metal_weight_value", 0),
                                   Get(quote_core, "metal_weight_unit", DWT)) > 0
                  THEN 1 ELSE 0
    /\ app = "table" =>
          \A mk \in MetalKeys :
              LET q == compute_quote(settings, quote_args(inputs, mk))
                  emitted == IF q.raised THEN <<>> ELSE q.line_items
              IN  Len(MetalLines(emitted)) = IF inputs.metal_weight_value > 0 THEN 1 ELSE 0

----------------------------------------------------------------------------

(* the metal line of a multi-metal quote, as a sequence of zero or one line *)
MetalLineOf(q) == SelectSeq(q.line_items, LAMBDA li : li.kind = "metal")

(* the platinum extra fee due for this key and job description, in dollars *)
ExtraFeeDue(mk) ==
    IF mk = Platinum /\ Get(quote_core, "add_platinum_extra_fee", TRUE)
    THEN settings.platinum_extra_fee
    ELSE 0

(* the weight the product uses, in 10^-6 DWT: scaled by the ratio for platinum only *)
EffectiveWeight(mk) ==
    LET base == weight_to_dwt(Get(quote_core, "metal_weight_value", 0),
                              Get(quote_core, "metal_weight_unit", DWT))
    IN  IF mk = Platinum THEN base * settings.platinum_density_ratio ELSE base * 100

(* C11: in compute_quote_for_metal the metal line amount is the effective   *)
(* weight times the rate plus the platinum extra fee; the effective weight  *)
(* is the base weight times platinum_density_ratio for a platinum key       *)
(* (base 10 at ratio 1.38 gives 13.8) and the base weight otherwise (10 DWT *)
(* at 120 gives 1200.00); the fee is added once, exactly when the key is    *)
(* platinum and the toggle is on; computed_dwt and rate_per_dwt in the      *)
(* line's meta are the weight and rate of that product.                     *)
C11_MetalAmountIsWeightTimesRatePlusFee ==
    app = "multi" =>
        \A mk \in MetalKeys :
            LET ms == MetalLineOf(compute_quote_for_metal(settings, quote_core, mk))
                rate == Get(settings.metals_retail_per_dwt, mk, 0)
                ten_dwt == /\ Get(quote_core, "metal_weight_value", 0) = 100
                           /\ Get(quote_core, "metal_weight_unit", DWT) = DWT
            IN  \A i \in DOMAIN ms :
                    /\ ms[i].meta.computed_dwt = EffectiveWeight(mk)
                    /\ ms[i].meta.rate_per_dwt = rate
                    /\ ms[i].amount =
                           MAdd(MulMicro(ms[i].meta.computed_dwt, ms[i].meta.rate_per_dwt),
                                Dollars(ExtraFeeDue(mk)))
                    /\ (ten_dwt /\ mk = Platinum) => ms[i].meta.computed_dwt = 13800000
                    /\ (ten_dwt /\ mk = K14Yellow) => ms[i].amount = Dollars(1200)

(* 10 DWT priced for platinum with the fee toggle off, next to 14K yellow *)
C11_Witness ==
    /\ app = "multi"
    /\ ~Get(quote_core, "add_platinum_extra_fee", TRUE)
    /\ \E o \in ReturnedOptions :
          /\ o.metal_key = Platinum
          /\ MetalLineOf(o) # <<>>
          /\ MetalLineOf(o)[1].meta.computed_dwt = 13800000
          /\ MetalLineOf(o)[1].amount = Dollars(2070)
    /\ \E o \in ReturnedOptions :
          /\ o.metal_key = K14Yellow
          /\ MetalLineOf(o) # <<>>
          /\ MetalLineOf(o)[1].amount = Dollars(1200)

----------------------------------------------------------------------------

(* the rows that count: quantity and price both greater than 0 *)
Qualifying(rows, price_key) == SelectSeq(rows, LAMBDA r : r.qty > 0 /\ r[price_key] > 0)

(* quantity times price summed over rows[1..n], in whole dollars *)
RECURSIVE ProductsOfFirst(_, _, _)
ProductsOfFirst(rows, price_key, n) ==
    IF n = 0 THEN 0
    ELSE ProductsOfFirst(rows, price_key, n - 1) + rows[n].qty * rows[n][price_key]

LinesOfKind(q, kind) == SelectSeq(q.line_items, LAMBDA li : li.kind = kind)

(* the aggregate line of this kind is the sum over the qualifying rows, its *)
(* detail rows are those rows in input order, and there is no line when the *)
(* sum is 0                                                                 *)
AggregateOver(q, kind, rows, price_key) ==
    LET qual == Qualifying(rows, price_key)
        sum == ProductsOfFirst(qual, price_key, Len(qual))
        lines == LinesOfKind(q, kind)
    IN  /\ Len(lines) = IF sum > 0 THEN 1 ELSE 0
        /\ \A i \in DOMAIN lines :
              /\ lines[i].amount = Dollars(sum)
              /\ Len(lines[i].details) = Len(qual)
              /\ \A j \in DOMAIN qual :
                    /\ lines[i].details[j].qty = qual[j].qty
                    /\ lines[i].details[j][price_key] = qual[j][price_key]
                    /\ lines[i].details[j].amount = Dollars(qual[j].qty * qual[j][price_key])

TwoTrimLines ==
    << [desc |-> <<>>, qty |-> 3, price_each |-> 40],
       [desc |-> <<>>, qty |-> 0, price_each |-> 999] >>

(* C12: in compute_quote_for_metal the trim-stones aggregate is the sum of  *)
(* qty * price_each over exactly the trim lines with qty > 0 and            *)
(* price_each > 0, the trim-setting aggregate the sum of qty * rate over    *)
(* exactly the lines with qty > 0 and rate > 0; a line with a zero or       *)
(* negative quantity or price adds nothing and raises nothing (lines        *)
(* {3, 40} and {0, 999} give 120.00); the detail rows are the qualifying    *)
(* lines in input order.                                                    *)
C12_TrimAggregatesOverQualifyingLines ==
    \A o \in ReturnedOptions :
        /\ AggregateOver(o, "trim_stones", Get(quote_core, "trim_stones", <<>>), "price_each")
        /\ Get(quote_core, "trim_setting_lines", <<>>) # <<>> =>
               AggregateOver(o, "labor_trim_setting", quote_core.trim_setting_lines, "rate")
        /\ Get(quote_core, "trim_stones", <<>>) = TwoTrimLines =>
               /\ Len(LinesOfKind(o, "trim_stones")) = 1
               /\ LinesOfKind(o, "trim_stones")[1].amount = Dollars(120)

(* the two-line scenario, and a trim-setting list with a skipped row *)
C12_Witness ==
    /\ app = "multi"
    /\ Get(quote_core, "trim_stones", <<>>) = TwoTrimLines
    /\ Len(Get(quote_core, "trim_setting_lines", <<>>)) = 1
    /\ \E o \in ReturnedOptions :
          /\ LinesOfKind(o, "trim_stones") # <<>>
          /\ Len(LinesOfKind(o, "trim_stones")[1].details) = 1
          /\ LinesOfKind(o, "labor_trim_setting") = <<>>

----------------------------------------------------------------------------

(* the display order of the kinds *)
DisplayOrder ==
    << "cad", "metal", "center_stone", "trim_stones", "labor_center_setting",
       "labor_trim_setting", "appraisal", "engraving", "shipping", "rhodium" >>

DisplayRank(kind) == CHOOSE r \in DOMAIN DisplayOrder : DisplayOrder[r] = kind

(* C13: the line items returned by compute_quote_for_metal are in the fixed *)
(* display order CAD fee, metal, center stone, trim stones, center-setting  *)
(* labor, trim-setting labor, appraisal, engraving, shipping, rhodium; each *)
(* kind appears at most once, and the two labor lines are separate lines.   *)
C13_LineItemsInDisplayOrder ==
    \A o \in ReturnedOptions :
        /\ \A i \in DOMAIN o.line_items : o.line_items[i].kind \in Range(DisplayOrder)
        /\ \A i, j \in DOMAIN o.line_items :
              i < j => DisplayRank(o.line_items[i].kind) < DisplayRank(o.line_items[j].kind)
        /\ (Get(quote_core, "center_setting_labor", 0) > 0
               /\ Qualifying(Get(quote_core, "trim_setting_lines", <<>>), "rate") # <<>>)
              => /\ Len(LinesOfKind(o, "labor_center_setting")) = 1
                 /\ Len(LinesOfKind(o, "labor_trim_setting")) = 1

(* a quote with both labor lines after a metal line *)
C13_Witness ==
    \E o \in ReturnedOptions :
        /\ Len(o.line_items) = 3
        /\ o.line_items[1].kind = "metal"
        /\ o.line_items[2].kind = "labor_center_setting"
        /\ o.line_items[3].kind = "labor_trim_setting"

----------------------------------------------------------------------------

(* the description has a character that is not a space *)
Named(desc) == \E i \in DOMAIN desc : desc[i] # " "

(* C14: in compute_quote_for_metal the center-stone line is emitted if and  *)
(* only if the price is greater than 0 or the trimmed description is not    *)
(* empty: a named stone with price 0 appears with amount 0, a stone with a  *)
(* blank or whitespace-only description and price 0 does not appear.        *)
C14_CenterStoneIffPricedOrNamed ==
    \A o \in ReturnedOptions :
        LET desc == Get(quote_core, "center_stone_desc", <<>>)
            price == Get(quote_core, "center_stone_price", 0)
            lines == LinesOfKind(o, "center_stone")
        IN  /\ Len(lines) = IF price > 0 \/ Named(desc) THEN 1 ELSE 0
            /\ \A i \in DOMAIN lines : lines[i].amount = Dollars(price)

(* a named stone without a price, listed at amount 0 *)
C14_Witness ==
    /\ app = "multi"
    /\ Named(Get(quote_core, "center_stone_desc", <<>>))
    /\ Get(quote_core, "center_stone_price", 0) = 0
    /\ \E o \in ReturnedOptions :
          /\ LinesOfKind(o, "center_stone") # <<>>
          /\ LinesOfKind(o, "center_stone")[1].amount = Zero

----------------------------------------------------------------------------

(* the flat fees of the table-based engine: misc flag, label, fee key *)
FlatFees ==
    { <<"rhodium", "Rhodium", "rhodium_fee">>,
      <<"polishing", "Polishing / finishing", "polishing_fee">>,
      <<"engraving", "Engraving", "engraving_fee">>,
      <<"shipping", "Shipping", "shipping_fee">> }

LinesLabelled(q, fmt) == SelectSeq(q.line_items, LAMBDA li : li.label.fmt = fmt)

(* C15: in both engines each flat additional-charge line (appraisal,        *)
(* engraving, shipping, rhodium in compute_quote_for_metal; the rhodium,    *)
(* polishing, engraving and shipping fees of the configuration in           *)
(* compute_quote) is in line_items if and only if its amount is greater     *)
(* than 0.                                                                  *)
C15_FlatChargeIffPositiveAmount ==
    /\ \A o \in ReturnedOptions : \A key \in ChargeKeys :
          /\ Len(LinesOfKind(o, key)) = IF Get(quote_core, key, 0) > 0 THEN 1 ELSE 0
          /\ \A i \in DOMAIN LinesOfKind(o, key) :
                LinesOfKind(o, key)[i].amount = Dollars(quote_core[key])
    /\ \A q \in ReturnedQuotes : \A fee \in FlatFees :
          LET amount == IF inputs.misc[fee[1]] THEN Get(settings.fees, fee[3], 0) ELSE 0
          IN  Len(LinesLabelled(q, fee[2])) = IF amount > 0 THEN 1 ELSE 0

----------------------------------------------------------------------------

(* the per-category toggle that governs a line of this kind *)
ToggleOf ==
    [cad |-> "tax_cad", metal |-> "tax_metal", center_stone |-> "tax_center_stone",
     trim_stones |-> "tax_trim_stones", labor_center_setting |-> "tax_labor",
     labor_trim_setting |-> "tax_labor", appraisal |-> "tax_appraisal",
     engraving |-> "tax_engraving", shipping |-> "tax_shipping", rhodium |-> "tax_rhodium"]

(* the hardcoded default: only shipping is non-taxable *)
TaxableByDefault(kind) == kind # "shipping"

(* C16: in compute_quote_for_metal the taxable flag of every line item is   *)
(* the per-category toggle of the job description when it is present, and   *)
(* the hardcoded default otherwise: shipping non-taxable, every other       *)
(* category taxable; the one labor toggle governs both labor lines.         *)
C16_TaxableFromToggleOrDefault ==
    \A o \in ReturnedOptions : \A i \in DOMAIN o.line_items :
        LET li == o.line_items[i]
        IN  li.taxable = IF ToggleOf[li.kind] \in DOMAIN quote_core
                         THEN quote_core[ToggleOf[li.kind]]
                         ELSE TaxableByDefault(li.kind)

(* the labor toggle switched off with both labor lines on the quote *)
C16_Witness ==
    /\ app = "multi"
    /\ "tax_labor" \in DOMAIN quote_core
    /\ \E o \in ReturnedOptions :
          /\ LinesOfKind(o, "labor_center_setting") # <<>>
          /\ LinesOfKind(o, "labor_trim_setting") # <<>>
          /\ ~LinesOfKind(o, "labor_center_setting")[1].taxable
          /\ ~LinesOfKind(o, "labor_trim_setting")[1].taxable

----------------------------------------------------------------------------

(* C17: both engines are total: compute_quote_for_metal and compute_quote   *)
(* return a quote and never raise for a well-typed configuration and job    *)
(* description, a metal key that has no rate included, as well as a trim    *)
(* size absent from the trim table, an unknown labor style and absent or    *)
(* zero quantities and prices.                                              *)
C17_EnginesNeverRaise ==
    /\ app = "multi" =>
          \A mk \in MetalKeys :
              "line_items" \in DOMAIN compute_quote_for_metal(settings, quote_core, mk)
    /\ app = "table" =>
          \A mk \in MetalKeys :
              ~compute_quote(settings, quote_args(inputs, mk)).raised

----------------------------------------------------------------------------

(* the keys on which two dicts differ *)
ChangedKeys(d, e) ==
    {k \in DOMAIN d \cup DOMAIN e :
        ~(k \in DOMAIN d /\ k \in DOMAIN e /\ d[k] = e[k])}

----------------------------------------------------------------------------

(* a whole number of cents *)
WholeCents(a) == a.f % (Unit \div 100) = 0

(* C19: every line-item amount that compute_quote_for_metal returns is      *)
(* rounded to currency precision (a whole number of cents), for every       *)
(* weight, unit, metal rate and platinum ratio, weights in grams included.  *)
C19_AmountsAreWholeCents ==
    \A o \in ReturnedOptions : \A i \in DOMAIN o.line_items :
        WholeCents(o.line_items[i].amount)

----------------------------------------------------------------------------

LegacyKeys == {"trim_setting_qty", "trim_setting_rate"}

(* the job description without the legacy pair *)
WithoutLegacy(qc) == [k \in DOMAIN qc \ LegacyKeys |-> qc[k]]

(* C20: in compute_quote_for_metal the legacy trim_setting_qty /            *)
(* trim_setting_rate pair is used only when trim_setting_lines is absent or *)
(* empty and both legacy values are > 0, and the trim-setting line is then  *)
(* qty * rate; when trim_setting_lines is non-empty the legacy pair changes *)
(* no line item and no total, even if every multi-line row is skipped.      *)
C20_LegacyPairOnlyWithoutLines ==
    \A o \in ReturnedOptions :
        LET legacy_qty == Get(quote_core, "trim_setting_qty", 0)
            legacy_rate == Get(quote_core, "trim_setting_rate", 0)
            lines == LinesOfKind(o, "labor_trim_setting")
        IN  IF Get(quote_core, "trim_setting_lines", <<>>) = <<>>
            THEN /\ Len(lines) = IF legacy_qty > 0 /\ legacy_rate > 0 THEN 1 ELSE 0
                 /\ \A i \in DOMAIN lines : lines[i].amount = Dollars(legacy_qty * legacy_rate)
            ELSE o = compute_quote_for_metal(settings, WithoutLegacy(quote_core), o.metal_key)

(* both legacy values given next to a multi-line list whose only row is     *)
(* skipped: no trim-setting line                                            *)
C20_Witness ==
    /\ app = "multi"
    /\ LegacyKeys \subseteq DOMAIN quote_core
    /\ Get(quote_core, "trim_setting_lines", <<>>) # <<>>
    /\ Qualifying(quote_core.trim_setting_lines, "rate") = <<>>
    /\ \E o \in ReturnedOptions : LinesOfKind(o, "labor_trim_setting") = <<>>

----------------------------------------------------------------------------

(* C21: weight_to_dwt returns the value unchanged when the unit is the base *)
(* unit (DWT), multiplies it by the fixed constant 0.643 when the unit is   *)
(* grams, and returns 0 for any negative input value.  Weights are in       *)
(* tenths of the unit and the result in 10^-4 DWT.                          *)
C21_WeightToDwtZeroForNegative ==
    app = "multi" =>
        LET weight_value == Get(quote_core, "metal_weight_value", 0)
            unit == Get(quote_core, "metal_weight_unit", DWT)
            dwt == weight_to_dwt(weight_value, unit)
        IN  IF weight_value < 0 THEN dwt = 0
            ELSE IF unit = DWT THEN dwt = weight_value * 1000
            ELSE dwt = weight_value * GRAMS_TO_DWT

----------------------------------------------------------------------------

(* the four labor buckets in their priority order *)
LaborBuckets == <<"round_center", "fancy_center", "round_trim", "fancy_trim">>

BucketsHolding(lr, style) ==
    {i \in DOMAIN LaborBuckets : style \in DOMAIN lr[LaborBuckets[i]]}

(* the rate of the first bucket, in priority order, that holds the style *)
ResolvedRate(lr, style) ==
    IF BucketsHolding(lr, style) = {} THEN 0
    ELSE LET first == CHOOSE i \in BucketsHolding(lr, style) :
                          \A j \in BucketsHolding(lr, style) : i <= j
         IN  lr[LaborBuckets[first]][style]

(* the two labor lines: style key, quantity key, label *)
LaborLines ==
    { <<"center_setting_style", "center_setting_qty", "Set center stone ({})">>,
      <<"trim_setting_style", "trim_setting_qty", "Set trim stones ({})">> }

(* C22: the labor rate of a style is the rate of the first of the buckets   *)
(* round_center, fancy_center, round_trim, fancy_trim that contains it, for *)
(* the center-setting and the trim-setting line alike, and 0 when no bucket *)
(* contains it, in which case no labor line is emitted; an emitted line     *)
(* carries rate times quantity.                                             *)
C22_LaborRateByBucketPriority ==
    \A q \in ReturnedQuotes : \A ll \in LaborLines :
        LET style == inputs.labor[ll[1]]
            rate == ResolvedRate(settings.labor_rates, style)
            lines == LinesLabelled(q, ll[3])
        IN  /\ _rate_for_style(settings.labor_rates, style) = rate
            /\ Len(lines) = IF style # "None" /\ rate * inputs.labor[ll[2]] > 0 THEN 1 ELSE 0
            /\ \A i \in DOMAIN lines :
                  /\ lines[i].amount = _round_money(settings, Dollars(rate * inputs.labor[ll[2]]))
                  /\ lines[i].label.args = <<style>>

(* Prong, held by the round-center and the fancy-center bucket, is chosen   *)
(* for the trim line and priced at the round-center rate; Halo, held by no  *)
(* bucket, is chosen for the center line with a positive quantity and gives *)
(* no line                                                                  *)
C22_Witness ==
    /\ app = "table"
    /\ inputs.labor.trim_setting_style = "Prong"
    /\ Cardinality(BucketsHolding(settings.labor_rates, "Prong")) = 2
    /\ inputs.labor.center_setting_style = "Halo"
    /\ BucketsHolding(settings.labor_rates, "Halo") = {}
    /\ inputs.labor.center_setting_qty > 0
    /\ \E q \in ReturnedQuotes :
          /\ LinesLabelled(q, "Set center stone ({})") = <<>>
          /\ Len(LinesLabelled(q, "Set trim stones ({})")) = 1
          /\ LinesLabelled(q, "Set trim stones ({})")[1].amount
                 = Dollars(settings.labor_rates.round_center["Prong"]
                               * inputs.labor.trim_setting_qty)

----------------------------------------------------------------------------

LabRanges == settings.center_stone.lab_diamond_price_per_ct_ranges

(* the ranges that hold the carat weight *)
RangesHolding(ranges, ct) ==
    {i \in DOMAIN ranges : ranges[i].min_ct <= ct /\ ct <= ranges[i].max_ct}

NoOverlap(ranges) ==
    \A i \in DOMAIN ranges : \A j \in DOMAIN ranges :
        i # j => (ranges[i].max_ct < ranges[j].min_ct \/ ranges[j].max_ct < ranges[i].min_ct)

(* the carat weight of the lab diamond on the form, and the carats at and   *)
(* next to the ends of every range                                          *)
ProbedCarats ==
    (IF "ct" \in DOMAIN inputs.center THEN {inputs.center.ct} ELSE {})
    \cup UNION { {LabRanges[i].min_ct - 1, LabRanges[i].min_ct,
                  LabRanges[i].max_ct, LabRanges[i].max_ct + 1} : i \in DOMAIN LabRanges }

(* C23: with ranges that do not overlap, get_default_center_price_per_ct    *)
(* returns the price_per_ct of the one range with min_ct <= carat <= max_ct *)
(* and None when the carat lies in no range, a gap between two ranges       *)
(* included; it never falls back to a neighbouring range.  The price        *)
(* widget of the app then starts at that price, or at 0.                    *)
C23_PriceOfTheOneBandOrNone ==
    (app = "table" /\ NoOverlap(LabRanges)) =>
        /\ \A ct \in ProbedCarats :
              LET found == get_default_center_price_per_ct(LabRanges, ct)
                  holding == RangesHolding(LabRanges, ct)
              IN  IF holding = {} THEN found = <<>>
                  ELSE \A i \in holding : found = <<LabRanges[i].price_per_ct>>
        /\ \A ct \in LabCaratValues :
              lab_center(settings, ct).price_per_ct =
                  IF RangesHolding(LabRanges, ct) = {} THEN 0
                  ELSE LabRanges[CHOOSE i \in RangesHolding(LabRanges, ct) : TRUE].price_per_ct

(* a lab diamond whose carat lies in the gap between two ranges, its price  *)
(* left at the default: the price is 0 and the quote has no center line     *)
C23_Witness ==
    /\ app = "table"
    /\ inputs.center.type = "Lab diamond (price/ct by range)"
    /\ RangesHolding(LabRanges, inputs.center.ct) = {}
    /\ \E i \in DOMAIN LabRanges : LabRanges[i].max_ct < inputs.center.ct
    /\ \E i \in DOMAIN LabRanges : inputs.center.ct < LabRanges[i].min_ct
    /\ inputs.center.price_per_ct = 0
    /\ \E q \in ReturnedQuotes :
          LinesLabelled(q, "Center stone (lab) {:.2f}ct @ ${:,.0f}/ct") = <<>>

----------------------------------------------------------------------------

(* the rows of the trim table with exactly this mm value *)
RowsMatching(trim_table, mm) == {i \in DOMAIN trim_table : trim_table[i].mm = mm}

(* the items that count: quantity > 0 and a row of exactly their size *)
Contributing(trim_table, items) ==
    SelectSeq(items, LAMBDA item : item.qty > 0 /\ RowsMatching(trim_table, item.mm) # {})

(* ct_each * quantity * price per carat, the price being the override when  *)
(* one is given and the row's retail price otherwise                        *)
Contribution(trim_table, item) ==
    LET row == trim_table[CHOOSE i \in RowsMatching(trim_table, item.mm) : TRUE]
        per_ct == IF item.retail_per_ct_override > 0
                  THEN item.retail_per_ct_override
                  ELSE row.retail_per_ct
    IN  [mm |-> item.mm, qty |-> item.qty, retail_per_ct |-> per_ct,
         amount |-> MulMicro(row.ct_each * item.qty * 1000, per_ct)]

Contributions(trim_table, items) ==
    [i \in 1..Len(Contributing(trim_table, items)) |->
        Contribution(trim_table, Contributing(trim_table, items)[i])]

(* C24: in compute_quote a trim item contributes to the Trim stones line    *)
(* only when its quantity is > 0 and its mm value exactly matches a row of  *)
(* the trim table (no nearest-size fallback: a non-matching item adds       *)
(* nothing); a matching item contributes ct_each times quantity times the   *)
(* price per carat, the item's override when one is given and the row's     *)
(* retail price per carat otherwise.                                        *)
C24_TrimItemsByExactSize ==
    \A q \in ReturnedQuotes :
        LET due == Contributions(settings.trim_table, trim_items(inputs))
            lines == LinesLabelled(q, "Trim stones")
        IN  /\ Len(lines) = IF MPos(TotalOf(due)) THEN 1 ELSE 0
            /\ \A i \in DOMAIN lines :
                  /\ lines[i].amount = _round_money(settings, TotalOf(due))
                  /\ Len(lines[i].details) = Len(due)
                  /\ \A j \in DOMAIN due :
                        /\ lines[i].details[j].mm = due[j].mm
                        /\ lines[i].details[j].qty = due[j].qty
                        /\ lines[i].details[j].retail_per_ct = due[j].retail_per_ct
                        /\ lines[i].details[j].amount = due[j].amount

(* an item of the second size of the table, priced at that row's carat      *)
(* weight and retail price                                                  *)
C24_Witness ==
    /\ app = "table"
    /\ \E q \in ReturnedQuotes : \E i \in DOMAIN inputs.trim_widgets :
          /\ inputs.trim_widgets[i].mm = settings.trim_table[2].mm
          /\ inputs.trim_widgets[i].qty > 0
          /\ inputs.trim_widgets[i].ov = 0
          /\ Len(LinesLabelled(q, "Trim stones")) = 1
          /\ LinesLabelled(q, "Trim stones")[1].details[1].amount
                 = MulMicro(settings.trim_table[2].ct_each * inputs.trim_widgets[i].qty * 1000,
                            settings.trim_table[2].retail_per_ct)

----------------------------------------------------------------------------

(* the run had no metal selected *)
NoMetalSelected ==
    IF app = "multi" THEN metals_selected = <<>> ELSE selected_metals = <<>>

(* no engine call was made and no file was rendered in the run *)
NothingQuoted ==
    /\ run.calls = 0
    /\ ~run.built
    /\ Len(run.rendered) = 0
    /\ app = "multi" => options = <<>>
    /\ app = "table" => quotes = <<>>

(* C25 as stated: in both apps, in every run where no metal is selected, no *)
(* compute_quote_for_metal / compute_quote call is made and no quote file   *)
(* is rendered; an error or warning is shown instead.                       *)
C25_NoCallAndErrorOrWarning ==
    NoMetalSelected =>
        /\ NothingQuoted
        /\ run.shown \cap {"error", "warning"} # {}

(* C25 amended: in both apps, in every run where no metal is selected, no   *)
(* engine call is made and no quote file is rendered; the table-based app   *)
(* shows a warning and stops, and the multi-metal app shows an info notice  *)
(* in place of the preview, and an error as well when "Generate quote       *)
(* files" was clicked.                                                      *)
C25_NoCallAndNoticeShown ==
    NoMetalSelected =>
        /\ NothingQuoted
        /\ app = "table" => run.shown = {"warning"}
        /\ app = "multi" =>
              run.shown = IF run.generate THEN {"error", "info"} ELSE {"info"}

(* "Generate quote files" clicked in the multi-metal app with no metal      *)
(* selected and a priced job description                                    *)
C25_Witness ==
    /\ app = "multi"
    /\ metals_selected = <<>>
    /\ run.generate
    /\ DOMAIN quote_core # {}

----------------------------------------------------------------------------
(* The renderers: the text a PDF carries, in drawing order.  Layout, fonts, *)
(* the logo, the store block and the customer, date and job lines are left  *)
(* out: nothing modelled feeds them.                                        *)

(* f"${x:,.0f}": the amount rounded to whole dollars *)
_money(x) == [fmt |-> "${:,.0f}", value |-> PyRound(x)]

(* src/render_quote.py 143-149: one trim detail line *)
detail_text(d, customer_view) ==
    IF customer_view
    THEN [text |-> Label("{:g}mm x {}  ({:.3f}ct)", <<d.mm, d.qty, d.total_ct>>),
          right |-> _money(d.amount)]
    ELSE [text |-> Label("{:g}mm x {}  ({:.3f}ct @ ${:,.0f}/ct)",
                         <<d.mm, d.qty, d.total_ct, d.retail_per_ct>>),
          right |-> _money(d.amount)]

RECURSIVE line_texts(_, _)
line_texts(line_items, customer_view) ==
    IF line_items = <<>> THEN <<>>
    ELSE LET li == Head(line_items)
             details == Get(li, "details", <<>>)
         IN  << [text |-> li.label, right |-> _money(li.amount)] >>
             \o [j \in 1..Len(details) |-> detail_text(details[j], customer_view)]
             \o line_texts(Tail(line_items), customer_view)

(* src/render_quote.py 14-179 *)
render_pdf(quote, customer_view) ==
       (IF ~customer_view /\ quote.notes # ""
        THEN << [text |-> Label("Notes (internal):", <<>>)], [text |-> quote.notes] >>
        ELSE <<>>)
    \o line_texts(quote.line_items, customer_view)
    \o << [text |-> Label("Subtotal: {}", <<_money(quote.subtotal)>>)],
          [text |-> Label("Sales tax ({:.2f}%): {}", <<quote.tax_rate, _money(quote.tax)>>)],
          [text |-> Label("Total  {}", <<_money(quote.total)>>)],
          [text |-> Label("Deposit due today ({:.0f}%): {}",
                          <<quote.deposit_rate, _money(quote.deposit)>>)] >>

(* f"${x:,.2f}": the amount rounded to whole cents, in cents *)
_money2(x) ==
    [fmt |-> "${:,.2f}",
     value |-> x.d * 100 + PyRound([d |-> x.f \div Million, f |-> (x.f % Million) * 100])]

(* src/jewelry_quote_app_v2/render_quote.py 230-246: one detail line *)
v2_detail_text(d) ==
    LET each == IF "price_each" \in DOMAIN d THEN d.price_each ELSE Get(d, "rate", 0)
        line == Label("{} x {}", <<Get(d, "qty", 0), _money(Dollars(each))>>)
    IN  [text |-> IF strip(Get(d, "desc", <<>>)) # <<>>
                  THEN Label("{} - {}", <<strip(d.desc), line>>)
                  ELSE line,
         right |-> _money(d.amount)]

RECURSIVE v2_line_texts(_)
v2_line_texts(shared_items) ==
    IF shared_items = <<>> THEN <<>>
    ELSE LET li == Head(shared_items)
             details == Get(li, "details", <<>>)
         IN  << [text |-> li.label, right |-> _money(li.amount)] >>
             \o [j \in 1..Len(details) |-> v2_detail_text(details[j])]
             \o v2_line_texts(Tail(shared_items))

(* src/jewelry_quote_app_v2/render_quote.py 109-320 *)
v2_render_pdf(quote_doc, customer_view) ==
       (IF ~customer_view /\ quote_doc.header.notes # <<>>
        THEN << [text |-> Label("Notes (internal):", <<>>)],
                [text |-> quote_doc.header.notes] >>
        ELSE <<>>)
    \o v2_line_texts(quote_doc.shared_line_items)
    \o [i \in 1..Len(quote_doc.metal_options) |->
           LET opt == quote_doc.metal_options[i]
           IN  [text |-> opt.metal_key,
                right |-> <<_money(opt.metal_amount), _money(opt.subtotal_pre_tax),
                            _money2(opt.tax), _money2(opt.total_with_tax),
                            _money2(opt.deposit)>>]]

(* a note the jeweller keeps to himself *)
InternalNote == "cost basis 200, call back Tuesday"

(* center stones of the same type and the same priced amount, the cost and  *)
(* the markup behind it being different                                     *)
SameAmountCenters(center) ==
    IF center.type \in {"Natural diamond (cost x markup)", "Colored / calibrated (cost x markup)"}
    THEN {[center EXCEPT !.cost = center.cost * center.markup, !.markup = 1]}
    ELSE {}

(* the quote with another price per carat recorded behind each trim detail  *)
WithRetailPerCt(quote, per_ct) ==
    [quote EXCEPT !.line_items =
        [i \in DOMAIN quote.line_items |->
            IF "details" \in DOMAIN quote.line_items[i]
            THEN [quote.line_items[i] EXCEPT !.details =
                     [j \in DOMAIN quote.line_items[i].details |->
                         [quote.line_items[i].details[j] EXCEPT !.retail_per_ct = per_ct]]]
            ELSE quote.line_items[i]]]

CustomerViewRendered ==
    \E i \in DOMAIN run.rendered :
        run.rendered[i].file = "pdf" /\ run.rendered[i].customer_view

(* C26: with the customer-view flag set, the rendered document does not     *)
(* depend on the internal notes or on cost-basis details: two quotes that   *)
(* are equal except for their notes, or except for the center-stone cost    *)
(* and markup behind the same priced amount, or except for the trim         *)
(* price-per-carat detail behind the same line amounts, give the same       *)
(* customer-view output.                                                    *)
C26_CustomerViewHidesNotesAndCostBasis ==
    CustomerViewRendered =>
        /\ app = "table" =>
              \A i \in DOMAIN selected_metals :
                  LET m == selected_metals[i]
                      drawn == render_pdf(quotes[m], TRUE)
                      other(inp) == compute_quote(settings, quote_args(inp, m))
                  IN  /\ render_pdf(other([inputs EXCEPT !.notes = InternalNote]), TRUE) = drawn
                      /\ \A c \in SameAmountCenters(inputs.center) :
                            /\ other([inputs EXCEPT !.center = c]).subtotal = quotes[m].subtotal
                            /\ render_pdf(other([inputs EXCEPT !.center = c]), TRUE) = drawn
                      /\ render_pdf(WithRetailPerCt(quotes[m], 1), TRUE) = drawn
        /\ app = "multi" =>
              v2_render_pdf([run.quote_doc EXCEPT !.header.notes = Ruby], TRUE)
                  = v2_render_pdf(run.quote_doc, TRUE)

----------------------------------------------------------------------------

(* C27: the rounding rule may be overridden per quote: when the job         *)
(* description passed to compute_quote_for_metal carries a rounding_rule,   *)
(* rounded_subtotal_pre_tax and the reported rounding_rule of the computed  *)
(* quote follow the job description's rule rather than the rounding rule    *)
(* of the configuration.                                                    *)
C27_JobRoundingRuleOverrides ==
    (app = "multi" /\ "rounding_rule" \in DOMAIN quote_core) =>
        \A o \in ReturnedOptions :
            /\ o.rounding_rule = quote_core.rounding_rule
            /\ o.rounded_subtotal_pre_tax
                   = round_money(o.subtotal_pre_tax, quote_core.rounding_rule)

----------------------------------------------------------------------------

----------------------------------------------------------------------------

(* a - b for b <= a *)
MSub(a, b) == Norm(a.d - b.d - 1, Unit + a.f - b.f)

(* app_quote.py 252: the "Balance Due" of the summary, max(0.0, total - deposit) *)
balance_due(q) == IF MLeq(q.deposit, q.total) THEN MSub(q.total, q.deposit) ELSE Zero

(* every number entered in the form is non-negative *)
NonNegativeFormInputs ==
    /\ inputs.cad_fee >= 0
    /\ inputs.metal_weight_value >= 0
    /\ inputs.misc.amount >= 0
    /\ inputs.labor.center_setting_qty >= 0
    /\ inputs.labor.trim_setting_qty >= 0
    /\ \A k \in DOMAIN inputs.center \cap {"ct", "price_per_ct", "cost", "markup", "price"} :
          inputs.center[k] >= 0
    /\ \A i \in DOMAIN inputs.trim_widgets :
          \A k \in DOMAIN inputs.trim_widgets[i] : inputs.trim_widgets[i][k] >= 0

(* deposit rates in percent, the two ends of [0, 1] among them *)
DepositRates == {0, 30, 50, 100}

WholeMultipleOf5(x) == x.f = 0 /\ x.d % 5 = 0

(* C29: every quote compute_quote returns for non-negative inputs and a     *)
(* deposit_rate in [0, 1] has a total and a deposit that are whole          *)
(* multiples of 5 with 0 <= deposit <= total, so the balance due is total   *)
(* minus deposit and is never negative; the same holds of the deposit the   *)
(* engine computes from that total at each rate of DepositRates.            *)
C29_TotalAndDepositMultiplesOf5InOrder ==
    (app = "table" /\ NonNegativeFormInputs /\ settings.deposit_rate \in 0..100) =>
        \A q \in ReturnedQuotes :
            /\ WholeMultipleOf5(q.total)
            /\ WholeMultipleOf5(q.deposit)
            /\ MLeq(Zero, q.deposit)
            /\ MLeq(q.deposit, q.total)
            /\ MAdd(balance_due(q), q.deposit) = q.total
            /\ MLeq(Zero, balance_due(q))
            /\ \A rate \in DepositRates :
                  LET deposit == cq_deposit([settings EXCEPT !.deposit_rate = rate], q.total)
                  IN  /\ WholeMultipleOf5(deposit)
                      /\ MLeq(Zero, deposit)
                      /\ MLeq(deposit, q.total)
                      /\ rate = 0 => deposit = Zero
                      /\ rate = 100 => deposit = q.total

(* a quote whose rounded total differs from subtotal + tax, with a deposit  *)
(* strictly between 0 and the total that is not the exact share of it       *)
C29_Witness ==
    /\ app = "table"
    /\ NonNegativeFormInputs
    /\ \E q \in ReturnedQuotes :
          /\ q.total # q.raw_total
          /\ MPos(q.deposit)
          /\ q.deposit # q.total
          /\ MTimes(q.deposit, 100) # MTimes(q.total, q.deposit_rate)
          /\ MPos(balance_due(q))

----------------------------------------------------------------------------

(* the session has a trim-line counter *)
HasTrimRows(ss) == "trim_rows" \in DOMAIN ss

(* app_quote.py 146-156, 237: the number of trim items handed to compute_quote *)
TrimItemsPassed == {Len(quote_args(inputs, m).trim.items) : m \in Range(selected_metals)}

(* the counter is at least 1 and is the number of trim items passed when    *)
(* trim stones are enabled; no item is passed when they are disabled        *)
TrimRowsCounted ==
    /\ HasTrimRows(session_state) => session_state.trim_rows >= 1
    /\ inputs.trim_enabled => HasTrimRows(session_state)
    /\ \A n \in TrimItemsPassed :
          n = IF inputs.trim_enabled THEN session_state.trim_rows ELSE 0

(* what one run does to the counter: created at 1 by the first run with    *)
(* trim stones enabled, then changed by the two buttons only                *)
TrimRowsStep ==
    IF ~HasTrimRows(session_state)
    THEN HasTrimRows(session_state') =>
             session_state'.trim_rows = 1 /\ inputs'.trim_enabled
    ELSE /\ HasTrimRows(session_state')
         /\ AddTrimLine => session_state'.trim_rows = session_state.trim_rows + 1
         /\ RemoveLastLine =>
               /\ session_state.trim_rows > 1
               /\ session_state'.trim_rows = session_state.trim_rows - 1
         /\ ~(AddTrimLine \/ RemoveLastLine) => session_state' = session_state
         /\ session_state'.trim_rows < session_state.trim_rows =>
               session_state.trim_rows > 1

(* C30: in the table-based app the trim-line counter trim_rows is at least *)
(* 1 after any sequence of "Add trim line" and "Remove last line" clicks:   *)
(* it starts at 1, add increases it by exactly 1, remove decreases it by    *)
(* exactly 1 and is possible only while it is greater than 1, and the       *)
(* number of trim items passed to compute_quote is the counter when trim    *)
(* stones are enabled and 0 when they are disabled.                         *)
C30_TrimRowsAtLeastOneAndCounted ==
    /\ [](app = "table" => TrimRowsCounted)
    /\ [][app = "table" => TrimRowsStep]_vars

(* trim stones disabled again after a second line was added: the counter   *)
(* stays at 2 and no item is passed                                         *)
C30_Witness ==
    /\ app = "table"
    /\ HasTrimRows(session_state)
    /\ session_state.trim_rows = 2
    /\ ~inputs.trim_enabled
    /\ TrimItemsPassed = {0}

====
